---- MODULE Spec2Model ----
(***************************************************************************)
(* Inventory stores of the repository.                                     *)
(*                                                                         *)
(*   - the line-based store: Semana9/GestionInventario.py and              *)
(*     Semana9-10/GestionInventario.py (same logic in both files): a list  *)
(*     of Producto persisted as "id|nombre|cantidad|precio\n" lines;       *)
(*   - the JSON store: Semana11/GestionInventarioAvanzado.py: an ordered   *)
(*     dict _items, a name index _indice_nombres, and the CLI main().      *)
(*                                                                         *)
(* Text is a sequence of one-character strings.  A Python float is the     *)
(* number of halves it holds (3 is 1.5): every price of the model is a     *)
(* multiple of 0.5, which str() and float() carry exactly.                 *)
(***************************************************************************)
EXTENDS Integers, Sequences, FiniteSets, TLC

VARIABLES
    productos,  \* line store: Inventario._productos, a list of records
    archivo,    \* line store: the characters of ruta_archivo
    ultimo,     \* line store: the last call made on the store and how it ended
    items,      \* Semana11: Inventario._items, an insertion-ordered dict (a list)
    indice,     \* Semana11: Inventario._indice_nombres, key -> set of ids
    disco,      \* Semana11: what data_file holds
    fase,       \* which program runs and where it stands (main(): "inicio", "menu")
    ult11,      \* Semana11: the last menu option run and how it ended
    rt,         \* one Producto object: its encode/decode, its setters, step by step
    g,          \* one persist, step by step (temporary file, target, position)
    avisos,     \* line numbers of the "[WARN] Linea idx corrupta" prints of a load
    vista,      \* the last read-only call: its name, its argument, what it returned
    hilos,      \* line store: two callers of one Inventario, each inside its call
    app,        \* Semana13: the App window (_next_id, rows of the table, entry text)
    cuenta      \* Semana6: one bank account (its class, its limit, its balance)

vars ==
    <<productos, archivo, ultimo, items, indice, disco, fase, ult11, rt, g,
      avisos, vista, hilos, app, cuenta>>

----------------------------------------------------------------------------
(* Bounds of the model.                                                    *)

MaxId == 2
MaxIdLinea == 11
MaxCantidadLinea == 2
MaxPrecioLinea == 3

----------------------------------------------------------------------------
(* Text: str.strip, str.rstrip("\n"), str.split, str(int), int(str),       *)
(* str(float), float(str), str.lower.                                      *)

DELIM == "|"
NL == "\n"
Blancos == {" ", NL}
Digitos == <<"0", "1", "2", "3", "4", "5", "6", "7", "8", "9">>

RECURSIVE LStrip(_)
LStrip(s) ==
    IF s # <<>> /\ Head(s) \in Blancos THEN LStrip(Tail(s)) ELSE s

RECURSIVE RStrip(_)
RStrip(s) ==
    IF s # <<>> /\ s[Len(s)] \in Blancos
    THEN RStrip(SubSeq(s, 1, Len(s) - 1))
    ELSE s

Strip(s) == RStrip(LStrip(s))

RECURSIVE RStripNL(_)
RStripNL(s) ==
    IF s # <<>> /\ s[Len(s)] = NL
    THEN RStripNL(SubSeq(s, 1, Len(s) - 1))
    ELSE s

\* s.split(d): the pieces between the occurrences of d (always at least one piece)
RECURSIVE SplitAcc(_, _, _)
SplitAcc(s, d, actual) ==
    IF s = <<>> THEN <<actual>>
    ELSE IF Head(s) = d THEN <<actual>> \o SplitAcc(Tail(s), d, <<>>)
    ELSE SplitAcc(Tail(s), d, Append(actual, Head(s)))

Split(s, d) == SplitAcc(s, d, <<>>)

Lower(c) == IF c = "A" THEN "a" ELSE IF c = "B" THEN "b" ELSE c
LowerStr(s) == [i \in 1..Len(s) |-> Lower(s[i])]

EsDigito(c) == \E i \in 1..10 : Digitos[i] = c
ValorDigito(c) == (CHOOSE i \in 1..10 : Digitos[i] = c) - 1

RECURSIVE NatStr(_)
NatStr(n) ==
    IF n < 10 THEN <<Digitos[n + 1]>>
    ELSE Append(NatStr(n \div 10), Digitos[(n % 10) + 1])

\* str(n) of a Python int
IntStr(n) == IF n < 0 THEN <<"-">> \o NatStr(0 - n) ELSE NatStr(n)

SoloDigitos(s) == s # <<>> /\ \A i \in 1..Len(s) : EsDigito(s[i])

RECURSIVE ValorNat(_)
ValorNat(s) ==
    IF s = <<>> THEN 0
    ELSE 10 * ValorNat(SubSeq(s, 1, Len(s) - 1)) + ValorDigito(s[Len(s)])

SinSigno(s) == IF s # <<>> /\ Head(s) \in {"-", "+"} THEN Tail(s) ELSE s
Signo(s) == IF s # <<>> /\ Head(s) = "-" THEN -1 ELSE 1

\* int(s): surrounding blanks, an optional sign, decimal digits; anything else raises
ParseInt(s) ==
    LET t == Strip(s)
        d == SinSigno(t)
    IN  IF SoloDigitos(d)
        THEN [ok |-> TRUE, v |-> Signo(t) * ValorNat(d)]
        ELSE [ok |-> FALSE, v |-> 0]

\* str(x) of a Python float holding h halves: "1.0", "1.5", "-0.5"
FloatStr(h) ==
    LET a == IF h < 0 THEN 0 - h ELSE h
    IN  (IF h < 0 THEN <<"-">> ELSE <<>>)
        \o NatStr(a \div 2) \o <<".">>
        \o (IF a % 2 = 0 THEN <<"0">> ELSE <<"5">>)

\* float(s): an optional sign, digits, and an optional "." with a fraction, here
\* one of "", "0", "5" (the halves the model holds); anything else raises
ParseFloat(s) ==
    LET t == Strip(s)
        d == SinSigno(t)
        partes == Split(d, ".")
        entero == partes[1]
        frac == IF Len(partes) = 2 THEN partes[2] ELSE <<>>
    IN  IF /\ Len(partes) \in {1, 2}
           /\ SoloDigitos(entero)
           /\ frac \in {<<>>, <<"0">>, <<"5">>}
        THEN [ok |-> TRUE,
              v |-> Signo(t) * (2 * ValorNat(entero)
                                + (IF frac = <<"5">> THEN 1 ELSE 0))]
        ELSE [ok |-> FALSE, v |-> 0]

----------------------------------------------------------------------------
(* Python values handed to the constructor and to the setters.             *)

PyInt(n) == [t |-> "int", v |-> n]
PyFloat(h) == [t |-> "float", v |-> h]
PyStr(s) == [t |-> "str", v |-> s]
PyNone == [t |-> "None", v |-> 0]

----------------------------------------------------------------------------
(* Producto of the line-based store.  A setter answers [ok, v]: the value  *)
(* it stores, or ok = FALSE when it raises.                                *)

SetId(value) ==
    IF value.t # "int" THEN [ok |-> FALSE, v |-> 0]
    ELSE IF value.v < 0 THEN [ok |-> FALSE, v |-> 0]
    ELSE [ok |-> TRUE, v |-> value.v]

SetNombre(value) ==
    IF value.t # "str" THEN [ok |-> FALSE, v |-> <<>>]
    ELSE IF Strip(value.v) = <<>> THEN [ok |-> FALSE, v |-> <<>>]
    ELSE [ok |-> TRUE, v |-> Strip(value.v)]

SetCantidad(value) ==
    IF value.t # "int" THEN [ok |-> FALSE, v |-> 0]
    ELSE IF value.v < 0 THEN [ok |-> FALSE, v |-> 0]
    ELSE [ok |-> TRUE, v |-> value.v]

\* float(value): an int or a float converts, a str is parsed, None raises
AFloat(value) ==
    CASE value.t = "int" -> [ok |-> TRUE, v |-> 2 * value.v]
      [] value.t = "float" -> [ok |-> TRUE, v |-> value.v]
      [] value.t = "str" -> ParseFloat(value.v)
      [] OTHER -> [ok |-> FALSE, v |-> 0]

SetPrecio(value) ==
    LET f == AFloat(value)
    IN  IF ~f.ok THEN [ok |-> FALSE, v |-> 0]
        ELSE IF f.v < 0 THEN [ok |-> FALSE, v |-> 0]
        ELSE [ok |-> TRUE, v |-> f.v]

SinProducto == [id |-> 0, nombre |-> <<>>, cantidad |-> 0, precio |-> 0]

\* Producto.__init__: the four setters in order; the first that raises ends it
Producto(id_, nombre, cantidad, precio) ==
    LET i == SetId(id_)
        n == SetNombre(nombre)
        c == SetCantidad(cantidad)
        p == SetPrecio(precio)
    IN  IF i.ok /\ n.ok /\ c.ok /\ p.ok
        THEN [ok |-> TRUE,
              p |-> [id |-> i.v, nombre |-> n.v, cantidad |-> c.v, precio |-> p.v]]
        ELSE [ok |-> FALSE, p |-> SinProducto]

\* Producto.a_linea: f"{id}|{nombre}|{cantidad}|{precio}\n"
a_linea(p) ==
    IntStr(p.id) \o <<DELIM>> \o p.nombre \o <<DELIM>>
    \o IntStr(p.cantidad) \o <<DELIM>> \o FloatStr(p.precio) \o <<NL>>

\* Producto.desde_linea: split on DELIM, strip each part, four parts, int, int,
\* float, then the constructor; [ok = FALSE] when any of them raises
desde_linea(linea) ==
    LET crudas == Split(RStripNL(linea), DELIM)
        partes == [k \in 1..Len(crudas) |-> Strip(crudas[k])]
    IN  IF Len(partes) # 4 THEN [ok |-> FALSE, p |-> SinProducto]
        ELSE LET id_ == ParseInt(partes[1])
                 cantidad == ParseInt(partes[3])
                 precio == ParseFloat(partes[4])
             IN  IF id_.ok /\ cantidad.ok /\ precio.ok
                 THEN Producto(PyInt(id_.v), PyStr(partes[2]),
                               PyInt(cantidad.v), PyFloat(precio.v))
                 ELSE [ok |-> FALSE, p |-> SinProducto]

----------------------------------------------------------------------------
(* Inventario of the line-based store.  A file is [existe, texto].         *)

Ausente == [existe |-> FALSE, texto |-> <<>>]
Fichero(texto) == [existe |-> TRUE, texto |-> texto]

\* How a call of _guardar_atomico ends: it returns, it raises before the
\* temporary file exists (mkstemp), or it raises with the temporary file written
\* (os.replace).
Fallas == {"ninguna", "mkstemp", "replace"}

\* the lines of a text file as "for linea in f" yields them: each with its "\n",
\* the last one without when the file does not end in "\n"
Lineas(texto) ==
    LET piezas == Split(texto, NL)
        n == Len(piezas)
    IN  [k \in 1..(IF piezas[n] = <<>> THEN n - 1 ELSE n) |->
            IF k < n THEN Append(piezas[k], NL) ELSE piezas[k]]

Posicion(prods, id_) ==
    IF \E i \in 1..Len(prods) : prods[i].id = id_
    THEN CHOOSE i \in 1..Len(prods) :
            /\ prods[i].id = id_
            /\ \A j \in 1..(i - 1) : prods[j].id # id_
    ELSE 0

\* _reemplazar_o_agregar that appends whatever the list holds
reemplazar_o_agregar_anade(prods, producto) == Append(prods, producto)

\* Inventario._reemplazar_o_agregar
reemplazar_o_agregar(prods, producto) ==
    LET i == Posicion(prods, producto.id)
    IN  IF i # 0 THEN [prods EXCEPT ![i] = producto] ELSE Append(prods, producto)

\* _cargar_desde_archivo that gives up at the first line that does not decode
RECURSIVE CargarLineas_aborta(_, _)
CargarLineas_aborta(lineas, prods) ==
    IF lineas = <<>> THEN prods
    ELSE LET linea == Head(lineas)
             r == desde_linea(linea)
         IN  IF Strip(linea) = <<>> THEN CargarLineas_aborta(Tail(lineas), prods)
             ELSE IF r.ok
                  THEN CargarLineas_aborta(Tail(lineas),
                                           reemplazar_o_agregar(prods, r.p))
                  ELSE prods

\* Inventario._cargar_desde_archivo: blank lines and lines that do not decode are
\* skipped, the others go through _reemplazar_o_agregar in file order
RECURSIVE CargarLineas(_, _)
CargarLineas(lineas, prods) ==
    IF lineas = <<>> THEN prods
    ELSE LET linea == Head(lineas)
             r == desde_linea(linea)
         IN  IF Strip(linea) = <<>> THEN CargarLineas(Tail(lineas), prods)
             ELSE IF r.ok
                  THEN CargarLineas(Tail(lineas), reemplazar_o_agregar(prods, r.p))
                  ELSE CargarLineas(Tail(lineas), prods)

cargar_desde_archivo(arch) ==
    IF ~arch.existe THEN <<>> ELSE CargarLineas(Lineas(arch.texto), <<>>)

\* what _cargar_desde_archivo prints: "[WARN] Linea idx corrupta" for every line
\* that is not blank and does not decode, idx counting the lines from 1
RECURSIVE AvisosLineas(_, _)
AvisosLineas(lineas, idx) ==
    IF lineas = <<>> THEN <<>>
    ELSE LET linea == Head(lineas)
             resto == AvisosLineas(Tail(lineas), idx + 1)
         IN  IF Strip(linea) = <<>> THEN resto
             ELSE IF desde_linea(linea).ok THEN resto
             ELSE <<idx>> \o resto

avisos_de_carga(arch) ==
    IF ~arch.existe THEN <<>> ELSE AvisosLineas(Lineas(arch.texto), 1)

RECURSIVE Serializar(_)
Serializar(prods) ==
    IF prods = <<>> THEN <<>> ELSE a_linea(Head(prods)) \o Serializar(Tail(prods))

\* Inventario._guardar_atomico as one call: every line goes to a temporary file,
\* os.replace puts it over the target; a failure at any point raises and the
\* target keeps what it held
guardar_atomico(prods, arch, falla) ==
    IF falla = "ninguna"
    THEN [ok |-> TRUE, archivo |-> Fichero(Serializar(prods))]
    ELSE [ok |-> FALSE, archivo |-> arch]

Quitar(s, i) == SubSeq(s, 1, i - 1) \o SubSeq(s, i + 1, Len(s))
Insertar(s, i, x) == SubSeq(s, 1, i - 1) \o <<x>> \o SubSeq(s, i, Len(s))
Pop(s) == SubSeq(s, 1, Len(s) - 1)

\* anadir_producto with the rollback left out: the appended record stays
anadir_producto_sin_pop(prods, arch, producto, falla) ==
    IF \E i \in 1..Len(prods) : prods[i].id = producto.id
    THEN [productos |-> prods, archivo |-> arch, res |-> "False", intentos |-> 0]
    ELSE LET nuevos == Append(prods, producto)
             s == guardar_atomico(nuevos, arch, falla)
         IN  [productos |-> nuevos, archivo |-> s.archivo,
              res |-> IF s.ok THEN "True" ELSE "raise", intentos |-> 1]

\* anadir_producto that answers False for a present id only after it has put
\* the new record in its place and persisted
anadir_producto_reemplaza(prods, arch, producto, falla) ==
    IF \E i \in 1..Len(prods) : prods[i].id = producto.id
    THEN LET nuevos == reemplazar_o_agregar(prods, producto)
             s == guardar_atomico(nuevos, arch, falla)
         IN  [productos |-> IF s.ok THEN nuevos ELSE prods, archivo |-> s.archivo,
              res |-> IF s.ok THEN "False" ELSE "raise", intentos |-> 1]
    ELSE LET nuevos == Append(prods, producto)
             s == guardar_atomico(nuevos, arch, falla)
         IN  IF s.ok
             THEN [productos |-> nuevos, archivo |-> s.archivo,
                   res |-> "True", intentos |-> 1]
             ELSE [productos |-> Pop(nuevos), archivo |-> s.archivo,
                   res |-> "raise", intentos |-> 1]

\* anadir_producto that swallows the exception of the persist: it rolls back
\* and answers False
anadir_producto_traga(prods, arch, producto, falla) ==
    IF \E i \in 1..Len(prods) : prods[i].id = producto.id
    THEN [productos |-> prods, archivo |-> arch, res |-> "False", intentos |-> 0]
    ELSE LET nuevos == Append(prods, producto)
             s == guardar_atomico(nuevos, arch, falla)
         IN  IF s.ok
             THEN [productos |-> nuevos, archivo |-> s.archivo,
                   res |-> "True", intentos |-> 1]
             ELSE [productos |-> Pop(nuevos), archivo |-> s.archivo,
                   res |-> "False", intentos |-> 1]

\* Inventario.anadir_producto
anadir_producto(prods, arch, producto, falla) ==
    IF \E i \in 1..Len(prods) : prods[i].id = producto.id
    THEN [productos |-> prods, archivo |-> arch, res |-> "False", intentos |-> 0]
    ELSE LET nuevos == Append(prods, producto)
             s == guardar_atomico(nuevos, arch, falla)
         IN  IF s.ok
             THEN [productos |-> nuevos, archivo |-> s.archivo,
                   res |-> "True", intentos |-> 1]
             ELSE [productos |-> Pop(nuevos), archivo |-> s.archivo,
                   res |-> "raise", intentos |-> 1]

\* eliminar_por_id whose rollback appends the record instead of inserting it
\* where it was
eliminar_por_id_al_final(prods, arch, id_, falla) ==
    LET i == Posicion(prods, id_)
    IN  IF i = 0
        THEN [productos |-> prods, archivo |-> arch, res |-> "False", intentos |-> 0]
        ELSE LET backup == prods[i]
                 quedan == Quitar(prods, i)
                 s == guardar_atomico(quedan, arch, falla)
             IN  IF s.ok
                 THEN [productos |-> quedan, archivo |-> s.archivo,
                       res |-> "True", intentos |-> 1]
                 ELSE [productos |-> Append(quedan, backup),
                       archivo |-> s.archivo, res |-> "raise", intentos |-> 1]

\* eliminar_por_id that persists the list also when the id is absent
eliminar_por_id_guarda_siempre(prods, arch, id_, falla) ==
    LET i == Posicion(prods, id_)
    IN  IF i = 0
        THEN LET s == guardar_atomico(prods, arch, falla)
             IN  [productos |-> prods, archivo |-> s.archivo,
                  res |-> "False", intentos |-> 1]
        ELSE LET backup == prods[i]
                 quedan == Quitar(prods, i)
                 s == guardar_atomico(quedan, arch, falla)
             IN  IF s.ok
                 THEN [productos |-> quedan, archivo |-> s.archivo,
                       res |-> "True", intentos |-> 1]
                 ELSE [productos |-> Insertar(quedan, i, backup),
                       archivo |-> s.archivo, res |-> "raise", intentos |-> 1]

\* Inventario.eliminar_por_id
eliminar_por_id(prods, arch, id_, falla) ==
    LET i == Posicion(prods, id_)
    IN  IF i = 0
        THEN [productos |-> prods, archivo |-> arch, res |-> "False", intentos |-> 0]
        ELSE LET backup == prods[i]
                 quedan == Quitar(prods, i)
                 s == guardar_atomico(quedan, arch, falla)
             IN  IF s.ok
                 THEN [productos |-> quedan, archivo |-> s.archivo,
                       res |-> "True", intentos |-> 1]
                 ELSE [productos |-> Insertar(quedan, i, backup),
                       archivo |-> s.archivo, res |-> "raise", intentos |-> 1]

\* actualizar_por_id whose rollback puts back the quantity alone
actualizar_por_id_solo_cantidad(prods, arch, id_, cantidad, precio, falla) ==
    LET i == Posicion(prods, id_)
    IN  IF i = 0
        THEN [productos |-> prods, archivo |-> arch, res |-> "False", intentos |-> 0]
        ELSE LET p == prods[i]
                 c == IF cantidad.t = "None" THEN [ok |-> TRUE, v |-> p.cantidad]
                      ELSE SetCantidad(cantidad)
                 q == IF precio.t = "None" THEN [ok |-> TRUE, v |-> p.precio]
                      ELSE SetPrecio(precio)
             IN  IF ~c.ok \/ ~q.ok
                 THEN [productos |-> prods, archivo |-> arch,
                       res |-> "invalido", intentos |-> 0]
                 ELSE LET cambiados ==
                              [prods EXCEPT ![i].cantidad = c.v, ![i].precio = q.v]
                          s == guardar_atomico(cambiados, arch, falla)
                      IN  IF s.ok
                          THEN [productos |-> cambiados, archivo |-> s.archivo,
                                res |-> "True", intentos |-> 1]
                          ELSE [productos |-> [prods EXCEPT ![i].precio = q.v],
                                archivo |-> s.archivo,
                                res |-> "raise", intentos |-> 1]

\* actualizar_por_id that does not put prev back when a setter raises: a
\* quantity set before the price was rejected stays
actualizar_por_id_sin_restaurar(prods, arch, id_, cantidad, precio, falla) ==
    LET i == Posicion(prods, id_)
    IN  IF i = 0
        THEN [productos |-> prods, archivo |-> arch, res |-> "False", intentos |-> 0]
        ELSE LET p == prods[i]
                 prev == Producto(PyInt(p.id), PyStr(p.nombre),
                                  PyInt(p.cantidad), PyFloat(p.precio)).p
                 c == IF cantidad.t = "None" THEN [ok |-> TRUE, v |-> p.cantidad]
                      ELSE SetCantidad(cantidad)
                 q == IF precio.t = "None" THEN [ok |-> TRUE, v |-> p.precio]
                      ELSE SetPrecio(precio)
                 atras == [prods EXCEPT ![i] = prev]
             IN  IF ~c.ok
                 THEN [productos |-> prods, archivo |-> arch,
                       res |-> "invalido", intentos |-> 0]
                 ELSE IF ~q.ok
                 THEN [productos |-> [prods EXCEPT ![i].cantidad = c.v],
                       archivo |-> arch, res |-> "invalido", intentos |-> 0]
                 ELSE LET cambiados ==
                              [prods EXCEPT ![i].cantidad = c.v, ![i].precio = q.v]
                          s == guardar_atomico(cambiados, arch, falla)
                      IN  IF s.ok
                          THEN [productos |-> cambiados, archivo |-> s.archivo,
                                res |-> "True", intentos |-> 1]
                          ELSE [productos |-> atras, archivo |-> s.archivo,
                                res |-> "raise", intentos |-> 1]

\* Inventario.actualizar_por_id: prev copies the record, the setters run in the
\* order cantidad, precio, then the persist; any exception of the three puts
\* prev back at position i and is raised again
actualizar_por_id(prods, arch, id_, cantidad, precio, falla) ==
    LET i == Posicion(prods, id_)
    IN  IF i = 0
        THEN [productos |-> prods, archivo |-> arch, res |-> "False", intentos |-> 0]
        ELSE LET p == prods[i]
                 prev == Producto(PyInt(p.id), PyStr(p.nombre),
                                  PyInt(p.cantidad), PyFloat(p.precio)).p
                 c == IF cantidad.t = "None" THEN [ok |-> TRUE, v |-> p.cantidad]
                      ELSE SetCantidad(cantidad)
                 q == IF precio.t = "None" THEN [ok |-> TRUE, v |-> p.precio]
                      ELSE SetPrecio(precio)
                 atras == [prods EXCEPT ![i] = prev]
             IN  IF ~c.ok \/ ~q.ok
                 THEN [productos |-> atras, archivo |-> arch,
                       res |-> "invalido", intentos |-> 0]
                 ELSE LET cambiados ==
                              [prods EXCEPT ![i].cantidad = c.v, ![i].precio = q.v]
                          s == guardar_atomico(cambiados, arch, falla)
                      IN  IF s.ok
                          THEN [productos |-> cambiados, archivo |-> s.archivo,
                                res |-> "True", intentos |-> 1]
                          ELSE [productos |-> atras, archivo |-> s.archivo,
                                res |-> "raise", intentos |-> 1]

\* "sub in s" of two strings
Contiene(sub, s) ==
    \E k \in 0..(Len(s) - Len(sub)) : SubSeq(s, k + 1, k + Len(sub)) = sub

\* Inventario.buscar_por_nombre of the line-based store: the term is stripped
\* and folded, then every record whose folded name contains it, in list order
buscar_por_nombre(prods, termino) ==
    LET t == LowerStr(Strip(termino))
    IN  SelectSeq(prods, LAMBDA p : Contiene(t, LowerStr(p.nombre)))

\* Inventario.mostrar_todos and the productos property: list(self._productos),
\* a new list whose elements are the very Producto objects the store holds.  An
\* element is written as a reference to the object, named by its place in
\* _productos
mostrar_todos(prods) == [k \in 1..Len(prods) |-> [ref |-> k]]

----------------------------------------------------------------------------
(* Semana11: Producto (a dataclass), Inventario with _items and            *)
(* _indice_nombres.  _items is a dict: its entries keep insertion order,   *)
(* so it is a list of records with distinct ids.                           *)

IndiceVacio == [k \in {} |-> {}]
SinDisco == [tipo |-> "ausente", productos |-> <<>>]

\* Producto.__post_init__ on an int id, a str, an int quantity, a float price
Producto11(id_, nombre, cantidad, precio) ==
    IF id_ <= 0 THEN [ok |-> FALSE, p |-> SinProducto]
    ELSE IF Strip(nombre) = <<>> THEN [ok |-> FALSE, p |-> SinProducto]
    ELSE IF cantidad < 0 THEN [ok |-> FALSE, p |-> SinProducto]
    ELSE IF precio < 0 THEN [ok |-> FALSE, p |-> SinProducto]
    ELSE [ok |-> TRUE,
          p |-> [id |-> id_, nombre |-> Strip(nombre),
                 cantidad |-> cantidad, precio |-> precio]]

\* Producto.set_cantidad / Producto.set_precio: [ok, v], ok = FALSE when it raises
set_cantidad(nueva_cantidad) ==
    IF nueva_cantidad < 0 THEN [ok |-> FALSE, v |-> 0]
    ELSE [ok |-> TRUE, v |-> nueva_cantidad]

set_precio(nuevo_precio) ==
    IF nuevo_precio < 0 THEN [ok |-> FALSE, v |-> 0]
    ELSE [ok |-> TRUE, v |-> nuevo_precio]

\* dict operations on _items
EnItems(its, id_) == \E i \in 1..Len(its) : its[i].id = id_
PosItem(its, id_) == CHOOSE i \in 1..Len(its) : its[i].id = id_
ItemsSet(its, p) ==
    IF EnItems(its, p.id) THEN [its EXCEPT ![PosItem(its, p.id)] = p]
    ELSE Append(its, p)
ItemsPop(its, id_) == Quitar(its, PosItem(its, id_))

\* the index key of a name: nombre.strip().lower()
Clave(nombre) == LowerStr(Strip(nombre))

\* Inventario._idx_add: setdefault(key, set()).add(p.id)
idx_add(ind, p) ==
    LET key == Clave(p.nombre)
        bucket == IF key \in DOMAIN ind THEN ind[key] ELSE {}
    IN  [k \in DOMAIN ind \cup {key} |->
            IF k = key THEN bucket \cup {p.id} ELSE ind[k]]

\* _idx_remove that pops the whole bucket of the name
idx_remove_cubo(ind, p) ==
    LET key == Clave(p.nombre)
    IN  IF key \notin DOMAIN ind THEN ind
        ELSE [k \in DOMAIN ind \ {key} |-> ind[k]]

\* _idx_remove that discards the id and keeps the bucket, empty or not
idx_remove_deja_vacio(ind, p) ==
    LET key == Clave(p.nombre)
    IN  IF key \notin DOMAIN ind THEN ind
        ELSE [ind EXCEPT ![key] = ind[key] \ {p.id}]

\* Inventario._idx_remove: no bucket or an empty one: nothing; else discard the
\* id and pop the key when the bucket is left empty
idx_remove(ind, p) ==
    LET key == Clave(p.nombre)
    IN  IF key \notin DOMAIN ind THEN ind
        ELSE IF ind[key] = {} THEN ind
        ELSE IF ind[key] \ {p.id} = {}
             THEN [k \in DOMAIN ind \ {key} |-> ind[k]]
             ELSE [ind EXCEPT ![key] = ind[key] \ {p.id}]

\* Inventario.agregar
agregar(its, ind, p) ==
    IF EnItems(its, p.id)
    THEN [items |-> its, indice |-> ind, res |-> "ProductoYaExiste"]
    ELSE [items |-> ItemsSet(its, p), indice |-> idx_add(ind, p), res |-> "ok"]

\* Inventario.eliminar
eliminar(its, ind, id_) ==
    IF ~EnItems(its, id_)
    THEN [items |-> its, indice |-> ind, res |-> "ProductoNoExiste"]
    ELSE LET p == its[PosItem(its, id_)]
         IN  [items |-> ItemsPop(its, id_), indice |-> idx_remove(ind, p),
              res |-> "ok"]

\* Inventario.actualizar_cantidad
actualizar_cantidad(its, ind, id_, nueva_cantidad) ==
    IF ~EnItems(its, id_)
    THEN [items |-> its, indice |-> ind, res |-> "ProductoNoExiste"]
    ELSE LET c == set_cantidad(nueva_cantidad)
         IN  IF ~c.ok
             THEN [items |-> its, indice |-> ind, res |-> "ValorInvalido"]
             ELSE [items |-> [its EXCEPT ![PosItem(its, id_)].cantidad = c.v],
                   indice |-> ind, res |-> "ok"]

\* Inventario.actualizar_precio
actualizar_precio(its, ind, id_, nuevo_precio) ==
    IF ~EnItems(its, id_)
    THEN [items |-> its, indice |-> ind, res |-> "ProductoNoExiste"]
    ELSE LET c == set_precio(nuevo_precio)
         IN  IF ~c.ok
             THEN [items |-> its, indice |-> ind, res |-> "ValorInvalido"]
             ELSE [items |-> [its EXCEPT ![PosItem(its, id_)].precio = c.v],
                   indice |-> ind, res |-> "ok"]

\* Inventario.buscar_por_nombre of Semana11: nothing for an empty pattern, else
\* the values of _items, in dict order, whose folded name contains it
buscar_por_nombre11(its, patron) ==
    LET t == LowerStr(Strip(patron))
    IN  IF t = <<>> THEN <<>>
        ELSE SelectSeq(its, LAMBDA p : Contiene(t, LowerStr(p.nombre)))

\* a lookup that stores the default under the key (dict.setdefault)
bucket_get_setdefault(ind, key) ==
    [indice |-> [k \in DOMAIN ind \cup {key} |->
                    IF k \in DOMAIN ind THEN ind[k] ELSE {}],
     ids |-> IF key \in DOMAIN ind THEN ind[key] ELSE {}]

\* self._indice_nombres.get(key, set()): the bucket of the key, or a fresh empty
\* set that is not stored; the dict after the call is the dict before it
bucket_get(ind, key) ==
    [indice |-> ind,
     ids |-> IF key \in DOMAIN ind THEN ind[key] ELSE {}]

\* the orders in which a Python set may hand out its elements
Ordenes(S) ==
    {f \in [1..Cardinality(S) -> S] : \A x \in S : \E j \in DOMAIN f : f[j] = x}

\* Inventario.buscar_exactos: [self._items[i] for i in ids] over the bucket of
\* the key, a set: the language fixes no iteration order, so the answer is any
\* of the orders (the bucket holds ids of _items only)
buscar_exactos(its, ind, nombre_exact) ==
    LET ids == bucket_get(ind, Clave(nombre_exact)).ids
    IN  {[j \in DOMAIN f |-> its[PosItem(its, f[j])]] : f \in Ordenes(ids)}

\* bajo_stock that also takes the records whose cantidad equals the threshold
bajo_stock_hasta(its, umbral) ==
    {its[i].id : i \in {j \in 1..Len(its) : its[j].cantidad <= umbral}}

\* Inventario.bajo_stock: {p.id for p in self._items.values()
\* if p.cantidad < umbral}
bajo_stock(its, umbral) ==
    {its[i].id : i \in {j \in 1..Len(its) : its[j].cantidad < umbral}}

\* listar_todos that leaves the rows in dict order
listar_todos_sin_ordenar(its) ==
    [i \in 1..Len(its) |->
        <<its[i].id, its[i].nombre, its[i].cantidad, its[i].precio>>]

\* Inventario.listar_todos: one tuple per value of _items, sorted by id
listar_todos(its) ==
    LET filas == [i \in 1..Len(its) |->
                     <<its[i].id, its[i].nombre, its[i].cantidad, its[i].precio>>]
    IN  SortSeq(filas, LAMBDA a, b : a[1] < b[1])

\* one entry of the "productos" list of the JSON file: the four fields, and
\* whether a field is missing ("falta") or holds text that is no number ("nonum")
Entrada(p) ==
    [forma |-> "ok", id |-> p.id, nombre |-> p.nombre,
     cantidad |-> p.cantidad, precio |-> p.precio]

\* Producto.from_dict: data[...] raises on a missing field, int()/float() on
\* text that is no number, the constructor on a value out of range
from_dict(d) ==
    IF d.forma # "ok" THEN [ok |-> FALSE, p |-> SinProducto]
    ELSE Producto11(d.id, d.nombre, d.cantidad, d.precio)

\* Inventario.guardar with _atomic_write_json as one call: the payload holds
\* to_dict of every value of _items in dict order; a failure raises and the
\* target keeps what it held
guardar(its, dsk, falla) ==
    IF falla
    THEN [ok |-> FALSE, disco |-> dsk]
    ELSE [ok |-> TRUE,
          disco |-> [tipo |-> "json",
                     productos |-> [i \in 1..Len(its) |-> Entrada(its[i])]]]

\* the loop of Inventario.cargar over the entries: the first entry that does
\* not decode raises and leaves what was loaded before it
RECURSIVE CargarEntradas(_, _, _)
CargarEntradas(ds, its, ind) ==
    IF ds = <<>> THEN [items |-> its, indice |-> ind, res |-> "ok"]
    ELSE LET r == from_dict(Head(ds))
         IN  IF ~r.ok THEN [items |-> its, indice |-> ind, res |-> "raise"]
             ELSE CargarEntradas(Tail(ds), ItemsSet(its, r.p), idx_add(ind, r.p))

\* Inventario.cargar: no file: the store is emptied; a file json.load rejects
\* (text that is no JSON document, a file of zero bytes): raises before
\* anything is cleared; else clear and load the entries
cargar(its, ind, dsk) ==
    IF dsk.tipo = "ausente"
    THEN [items |-> <<>>, indice |-> IndiceVacio, res |-> "ok"]
    ELSE IF dsk.tipo \in {"invalido", "vacio"}
    THEN [items |-> its, indice |-> ind, res |-> "raise"]
    ELSE CargarEntradas(dsk.productos, <<>>, IndiceVacio)

----------------------------------------------------------------------------
(* The line-based store as a state machine: the state after                *)
(* Inventario(ruta_archivo), then one action per public method.            *)

Ids == 1..MaxId
NombresEntrada == {<<" ", "a">>, <<"a", DELIM, "b">>, <<" ">>}
CantidadesEntrada == {1}
PreciosEntrada == {2}
\* the (cantidad, precio) arguments of actualizar_por_id: one field, both, none,
\* a negative quantity, a negative price, a good quantity with a negative price,
\* a quantity that is no int (1.0), a price that is no number ("x") alone and
\* with a good quantity
Cambios ==
    { <<PyNone, PyNone>>,
      <<PyInt(0), PyNone>>, <<PyInt(1), PyNone>>,
      <<PyNone, PyFloat(1)>>, <<PyNone, PyFloat(2)>>,
      <<PyInt(0), PyFloat(1)>>, <<PyInt(1), PyFloat(2)>>,
      <<PyInt(-1), PyNone>>, <<PyNone, PyFloat(-1)>>, <<PyInt(0), PyFloat(-1)>>,
      <<PyFloat(2), PyNone>>, <<PyNone, PyStr(<<"x">>)>>,
      <<PyInt(0), PyStr(<<"x">>)>> }

Rec(i, n, c, h) == [id |-> i, nombre |-> n, cantidad |-> c, precio |-> h]
LineaCorrupta == <<"x", DELIM, "y", NL>>

\* what ruta_archivo may hold before the store is constructed: nothing, an
\* empty file, records, a corrupt line among records, the same id twice
ArchivosPrevios ==
    { Ausente,
      Fichero(<<>>),
      Fichero(a_linea(Rec(1, <<"a">>, 1, 1))),
      Fichero(a_linea(Rec(2, <<"a">>, 0, 2)) \o LineaCorrupta
              \o a_linea(Rec(1, <<"a">>, 1, 1))),
      Fichero(a_linea(Rec(1, <<"a">>, 1, 1)) \o a_linea(Rec(1, <<"a">>, 0, 2))) }

\* Inventario._asegurar_archivo: an absent file is created empty; when the
\* creation is refused the store goes on in memory and the file stays absent
asegurar_archivo(arch, permitido) ==
    IF ~arch.existe /\ permitido THEN Fichero(<<>>) ELSE arch

\* no caller is inside a call
SinHilos == <<>>
\* no window, no account
SinApp == <<>>
SinCuenta == <<>>
SinVista == [op |-> "ninguna", patron |-> <<>>, res |-> <<>>]

Llamada(op, r, ambos) ==
    [op |-> op, res |-> r.res, intentos |-> r.intentos, ambos |-> ambos]

\* the variables of the other programs of the module do not move
QuietoLB == UNCHANGED <<productos, archivo, ultimo>>
Quieto11 == UNCHANGED <<items, indice, disco, fase, ult11>>
QuietoRT == UNCHANGED rt
QuietoG == UNCHANGED g
QuietoV == UNCHANGED <<avisos, vista, hilos, app, cuenta>>

Init ==
    \E previo \in ArchivosPrevios, permitido \in BOOLEAN :
        /\ archivo = asegurar_archivo(previo, permitido)
        /\ productos = cargar_desde_archivo(asegurar_archivo(previo, permitido))
        /\ ultimo = [op |-> "init", res |-> "True", intentos |-> 0, ambos |-> FALSE]
        /\ avisos = <<>>
        /\ app = SinApp
        /\ cuenta = SinCuenta
        /\ hilos = SinHilos
        /\ vista = SinVista
        /\ items = <<>>
        /\ indice = IndiceVacio
        /\ disco = SinDisco
        /\ fase = "parado"
        /\ ult11 = [op |-> "init", res |-> "ok"]
        /\ rt = 0
        /\ g = 0

\* menu option 1: Producto(...) and, when it validates, anadir_producto
AnadirProducto ==
    /\ \E i \in Ids, n \in NombresEntrada, c \in CantidadesEntrada,
          h \in PreciosEntrada, falla \in Fallas :
           LET nuevo == Producto(PyInt(i), PyStr(n), PyInt(c), PyFloat(h))
               r == anadir_producto(productos, archivo, nuevo.p, falla)
           IN  IF nuevo.ok
               THEN /\ productos' = r.productos
                    /\ archivo' = r.archivo
                    /\ ultimo' = Llamada("anadir", r, FALSE)
               ELSE /\ ultimo' = [op |-> "anadir", res |-> "invalido",
                                  intentos |-> 0, ambos |-> FALSE]
                    /\ UNCHANGED <<productos, archivo>>
    /\ Quieto11 /\ QuietoRT /\ QuietoG /\ QuietoV

EliminarPorId ==
    /\ \E i \in Ids, falla \in Fallas :
           LET r == eliminar_por_id(productos, archivo, i, falla)
           IN  /\ productos' = r.productos
               /\ archivo' = r.archivo
               /\ ultimo' = Llamada("eliminar", r, FALSE)
    /\ Quieto11 /\ QuietoRT /\ QuietoG /\ QuietoV

\* whether the call gives cantidad a valid value other than the one held and
\* gives precio too: a value the setter rejects, or a valid one other than the
\* one held
Ambos(prods, id_, cantidad, precio) ==
    LET i == Posicion(prods, id_)
    IN  /\ i # 0
        /\ SetCantidad(cantidad).ok /\ SetCantidad(cantidad).v # prods[i].cantidad
        /\ precio.t # "None"
        /\ SetPrecio(precio).ok => SetPrecio(precio).v # prods[i].precio

ActualizarPorId ==
    /\ \E i \in Ids, cambio \in Cambios, falla \in Fallas :
           LET r == actualizar_por_id(productos, archivo, i,
                                      cambio[1], cambio[2], falla)
           IN  /\ productos' = r.productos
               /\ archivo' = r.archivo
               /\ ultimo' = Llamada("actualizar", r,
                                    Ambos(productos, i, cambio[1], cambio[2]))
    /\ Quieto11 /\ QuietoRT /\ QuietoG /\ QuietoV

Next ==
    \/ AnadirProducto
    \/ EliminarPorId
    \/ ActualizarPorId

Spec == Init /\ [][Next]_vars

----------------------------------------------------------------------------
(* The Semana11 Inventario alone: an empty store and calls of agregar,     *)
(* eliminar, actualizar_cantidad and actualizar_precio.                    *)

Nombres11 == {<<"a">>, <<"A">>, <<"b", " ">>}
Cantidades11 == {0, 1, -1}
Precios11 == {1, 2, -1}

InitMem ==
    /\ items = <<>>
    /\ indice = IndiceVacio
    /\ disco = SinDisco
    /\ fase = "metodos"
    /\ ult11 = [op |-> "init", res |-> "ok"]
    /\ productos = <<>>
    /\ archivo = Ausente
    /\ ultimo = [op |-> "init", res |-> "True", intentos |-> 0, ambos |-> FALSE]
    /\ avisos = <<>>
    /\ app = SinApp
    /\ cuenta = SinCuenta
    /\ hilos = SinHilos
    /\ vista = SinVista
    /\ rt = 0
    /\ g = 0

Agregar ==
    /\ fase = "metodos"
    /\ \E i \in Ids, n \in Nombres11 :
           LET r == agregar(items, indice, Producto11(i, n, 1, 2).p)
           IN  /\ items' = r.items
               /\ indice' = r.indice
               /\ ult11' = [op |-> "agregar", res |-> r.res]
    /\ UNCHANGED <<disco, fase>>
    /\ QuietoLB /\ QuietoRT /\ QuietoG /\ QuietoV

Eliminar ==
    /\ fase = "metodos"
    /\ \E i \in Ids :
           LET r == eliminar(items, indice, i)
           IN  /\ items' = r.items
               /\ indice' = r.indice
               /\ ult11' = [op |-> "eliminar", res |-> r.res]
    /\ UNCHANGED <<disco, fase>>
    /\ QuietoLB /\ QuietoRT /\ QuietoG /\ QuietoV

ActualizarCantidad ==
    /\ fase = "metodos"
    /\ \E i \in Ids, c \in Cantidades11 :
           LET r == actualizar_cantidad(items, indice, i, c)
           IN  /\ items' = r.items
               /\ indice' = r.indice
               /\ ult11' = [op |-> "actualizar_cantidad", res |-> r.res]
    /\ UNCHANGED <<disco, fase>>
    /\ QuietoLB /\ QuietoRT /\ QuietoG /\ QuietoV

ActualizarPrecio ==
    /\ fase = "metodos"
    /\ \E i \in Ids, h \in Precios11 :
           LET r == actualizar_precio(items, indice, i, h)
           IN  /\ items' = r.items
               /\ indice' = r.indice
               /\ ult11' = [op |-> "actualizar_precio", res |-> r.res]
    /\ UNCHANGED <<disco, fase>>
    /\ QuietoLB /\ QuietoRT /\ QuietoG /\ QuietoV

NextMem ==
    \/ Agregar
    \/ Eliminar
    \/ ActualizarCantidad
    \/ ActualizarPrecio

SpecMem == InitMem /\ [][NextMem]_vars

----------------------------------------------------------------------------
(* main() of Semana11: the initial cargar, then one action per menu option *)
(* that touches the store or the file.  Every exception of an option is    *)
(* caught and printed by the loop, which then goes on.                     *)

IdsCLI == {1, 2}
NombresCLI == {<<"a">>, <<"B">>}
CantidadesCLI == {0, 1, -1}
PreciosCLI == {2, -1}

E11(i, n, c, h) ==
    [forma |-> "ok", id |-> i, nombre |-> n, cantidad |-> c, precio |-> h]
Json(ds) == [tipo |-> "json", productos |-> ds]

\* what data_file may hold when main() starts: nothing, text that is no JSON,
\* one product, one id twice under two names, an entry with a field missing
\* between two good ones
DiscosPrevios ==
    { SinDisco,
      [tipo |-> "invalido", productos |-> <<>>],
      Json(<<E11(1, <<"a">>, 1, 2)>>),
      Json(<<E11(1, <<"a">>, 1, 2), E11(1, <<"B">>, 0, 2)>>),
      Json(<<E11(1, <<"a">>, 1, 2),
             [E11(2, <<"a">>, 1, 2) EXCEPT !.forma = "falta"],
             E11(2, <<"B">>, 1, 2)>>) }

InitCLI ==
    /\ items = <<>>
    /\ indice = IndiceVacio
    /\ disco \in DiscosPrevios
    /\ fase = "inicio"
    /\ ult11 = [op |-> "init", res |-> "ok"]
    /\ productos = <<>>
    /\ archivo = Ausente
    /\ ultimo = [op |-> "init", res |-> "True", intentos |-> 0, ambos |-> FALSE]
    /\ avisos = <<>>
    /\ app = SinApp
    /\ cuenta = SinCuenta
    /\ hilos = SinHilos
    /\ vista = SinVista
    /\ rt = 0
    /\ g = 0

\* what an option that mutates and then calls guardar leaves: the mutation's
\* exception when it raised (guardar is not reached), else the mutated store
\* and guardar's outcome
TrasMutar(op, r, falla) ==
    LET s == guardar(r.items, disco, falla)
    IN  /\ items' = r.items
        /\ indice' = r.indice
        /\ disco' = IF r.res = "ok" THEN s.disco ELSE disco
        /\ ult11' = [op |-> op,
                     res |-> IF r.res # "ok" THEN r.res
                             ELSE IF s.ok THEN "ok" ELSE "error_guardar"]
        /\ UNCHANGED fase

CargaInicial ==
    /\ fase = "inicio"
    /\ LET r == cargar(items, indice, disco)
       IN  /\ items' = r.items
           /\ indice' = r.indice
           /\ ult11' = [op |-> "cargar", res |-> r.res]
    /\ fase' = "menu"
    /\ UNCHANGED disco
    /\ QuietoLB /\ QuietoRT /\ QuietoG /\ QuietoV

Opcion1 ==
    /\ fase = "menu"
    /\ \E i \in IdsCLI \cup {0}, n \in NombresCLI, falla \in BOOLEAN :
           LET nuevo == Producto11(i, n, 1, 2)
           IN  IF nuevo.ok
               THEN TrasMutar("agregar", agregar(items, indice, nuevo.p), falla)
               ELSE /\ ult11' = [op |-> "agregar", res |-> "ValorInvalido"]
                    /\ UNCHANGED <<items, indice, disco, fase>>
    /\ QuietoLB /\ QuietoRT /\ QuietoG /\ QuietoV

Opcion2 ==
    /\ fase = "menu"
    /\ \E i \in IdsCLI, falla \in BOOLEAN :
           TrasMutar("eliminar", eliminar(items, indice, i), falla)
    /\ QuietoLB /\ QuietoRT /\ QuietoG /\ QuietoV

Opcion3 ==
    /\ fase = "menu"
    /\ \E i \in IdsCLI, c \in CantidadesCLI, falla \in BOOLEAN :
           TrasMutar("actualizar_cantidad",
                     actualizar_cantidad(items, indice, i, c), falla)
    /\ QuietoLB /\ QuietoRT /\ QuietoG /\ QuietoV

Opcion4 ==
    /\ fase = "menu"
    /\ \E i \in IdsCLI, h \in PreciosCLI, falla \in BOOLEAN :
           TrasMutar("actualizar_precio",
                     actualizar_precio(items, indice, i, h), falla)
    /\ QuietoLB /\ QuietoRT /\ QuietoG /\ QuietoV

Opcion8 ==
    /\ fase = "menu"
    /\ \E falla \in BOOLEAN :
           LET s == guardar(items, disco, falla)
           IN  /\ disco' = s.disco
               /\ ult11' = [op |-> "guardar",
                            res |-> IF s.ok THEN "ok" ELSE "error_guardar"]
    /\ UNCHANGED <<items, indice, fase>>
    /\ QuietoLB /\ QuietoRT /\ QuietoG /\ QuietoV

Opcion9 ==
    /\ fase = "menu"
    /\ LET r == cargar(items, indice, disco)
       IN  /\ items' = r.items
           /\ indice' = r.indice
           /\ ult11' = [op |-> "cargar", res |-> r.res]
    /\ UNCHANGED <<disco, fase>>
    /\ QuietoLB /\ QuietoRT /\ QuietoG /\ QuietoV

\* option 0: guardar, then the loop ends; when guardar raises the loop goes on
Opcion0 ==
    /\ fase = "menu"
    /\ \E falla \in BOOLEAN :
           LET s == guardar(items, disco, falla)
           IN  /\ disco' = s.disco
               /\ fase' = IF s.ok THEN "fin" ELSE "menu"
               /\ ult11' = [op |-> "salir",
                            res |-> IF s.ok THEN "ok" ELSE "error_guardar"]
    /\ UNCHANGED <<items, indice>>
    /\ QuietoLB /\ QuietoRT /\ QuietoG /\ QuietoV

NextCLI ==
    \/ CargaInicial
    \/ Opcion1
    \/ Opcion2
    \/ Opcion3
    \/ Opcion4
    \/ Opcion8
    \/ Opcion9
    \/ Opcion0

SpecCLI == InitCLI /\ [][NextCLI]_vars

----------------------------------------------------------------------------
(* One Producto of the line-based store through a_linea and desde_linea.   *)

NombresLinea ==
    { <<"a">>, <<" ", "a", " ">>, <<"a", " ", "b">>, <<"A", "b">>,
      <<"a", DELIM, "b">>, <<" ">> }

SinLinea == [ok |-> FALSE, p |-> SinProducto]

InitLinea ==
    /\ rt = [paso |-> "inicio", p |-> SinProducto, linea |-> <<>>, res |-> SinLinea]
    /\ productos = <<>>
    /\ archivo = Ausente
    /\ ultimo = [op |-> "init", res |-> "True", intentos |-> 0, ambos |-> FALSE]
    /\ avisos = <<>>
    /\ app = SinApp
    /\ cuenta = SinCuenta
    /\ hilos = SinHilos
    /\ vista = SinVista
    /\ items = <<>>
    /\ indice = IndiceVacio
    /\ disco = SinDisco
    /\ fase = "parado"
    /\ ult11 = [op |-> "init", res |-> "ok"]
    /\ g = 0

Construir ==
    /\ rt.paso = "inicio"
    /\ \E i \in (-1)..MaxIdLinea, n \in NombresLinea,
          c \in (-1)..MaxCantidadLinea, h \in (-1)..MaxPrecioLinea :
           LET r == Producto(PyInt(i), PyStr(n), PyInt(c), PyFloat(h))
           IN  rt' = [rt EXCEPT !.paso = IF r.ok THEN "construido" ELSE "rechazado",
                                !.p = r.p]
    /\ QuietoLB /\ Quieto11 /\ QuietoG /\ QuietoV

Codificar ==
    /\ rt.paso = "construido"
    /\ rt' = [rt EXCEPT !.paso = "codificado", !.linea = a_linea(rt.p)]
    /\ QuietoLB /\ Quieto11 /\ QuietoG /\ QuietoV

Decodificar ==
    /\ rt.paso = "codificado"
    /\ rt' = [rt EXCEPT !.paso = "decodificado", !.res = desde_linea(rt.linea)]
    /\ QuietoLB /\ Quieto11 /\ QuietoG /\ QuietoV

NextLinea ==
    \/ Construir
    \/ Codificar
    \/ Decodificar

SpecLinea == InitLinea /\ [][NextLinea]_vars

----------------------------------------------------------------------------
(* One persist, step by step: _guardar_atomico of the line-based store     *)
(* ("lineas") and guardar / _atomic_write_json of Semana11 ("json").  The  *)
(* temporary file receives the records one at a time; any step can raise,  *)
(* and the process can die between any two steps.                          *)

\* the record lists persisted: every order of every subset of the ids
ColeccionesG ==
    { c \in UNION {[1..n -> Ids] : n \in 0..MaxId} :
        \A i, j \in 1..Len(c) : i # j => c[i] # c[j] }
RegistrosG(c) == [k \in 1..Len(c) |-> Rec(c[k], <<"a">>, 1, 2)]

\* what the target holds once the persist of these records is complete
Completo(prog, regs) ==
    IF prog = "lineas" THEN Fichero(Serializar(regs))
    ELSE Json([k \in 1..Len(regs) |-> Entrada(regs[k])])

\* what a file holds when only the first n records have been written to it
Parcial(prog, regs, n) ==
    IF prog = "lineas" THEN Fichero(Serializar(SubSeq(regs, 1, n)))
    ELSE [tipo |-> IF n = Len(regs) THEN "json" ELSE "parcial",
          productos |-> [k \in 1..n |-> Entrada(regs[k])]]

NoFichero(prog) == IF prog = "lineas" THEN Ausente ELSE SinDisco

InitGuardar ==
    /\ \E prog \in {"lineas", "json"}, nuevos \in ColeccionesG,
          hay \in BOOLEAN, viejos \in ColeccionesG :
           g = [prog |-> prog,
                datos |-> RegistrosG(nuevos),
                viejo |-> IF hay THEN Completo(prog, RegistrosG(viejos))
                          ELSE NoFichero(prog),
                destino |-> IF hay THEN Completo(prog, RegistrosG(viejos))
                            ELSE NoFichero(prog),
                tmp |-> NoFichero(prog),
                escritos |-> 0,
                fsync |-> FALSE,
                pc |-> "crear",
                fin |-> "no"]
    /\ productos = <<>>
    /\ archivo = Ausente
    /\ ultimo = [op |-> "init", res |-> "True", intentos |-> 0, ambos |-> FALSE]
    /\ avisos = <<>>
    /\ app = SinApp
    /\ cuenta = SinCuenta
    /\ hilos = SinHilos
    /\ vista = SinVista
    /\ items = <<>>
    /\ indice = IndiceVacio
    /\ disco = SinDisco
    /\ fase = "parado"
    /\ ult11 = [op |-> "init", res |-> "ok"]
    /\ rt = 0

\* tempfile.mkstemp / NamedTemporaryFile(delete=False): an empty file beside
\* the target
CrearTemporal(gg) ==
    [gg EXCEPT !.tmp = Parcial(gg.prog, gg.datos, 0), !.pc = "escribir"]

\* the next record written over the target itself, with no temporary file
EscribirRegistro_en_destino(gg) ==
    [gg EXCEPT !.escritos = gg.escritos + 1,
               !.destino = Parcial(gg.prog, gg.datos, gg.escritos + 1)]

\* tmp.write(p.a_linea()) of the next record / json.dump reaching the next entry
EscribirRegistro(gg) ==
    [gg EXCEPT !.escritos = gg.escritos + 1,
               !.tmp = Parcial(gg.prog, gg.datos, gg.escritos + 1)]

\* after the last record: Semana11 flushes and fsyncs, then the with block
\* closes the file; the line-based store only closes it
TrasEscribir(gg) ==
    [gg EXCEPT !.pc = IF gg.prog = "json" THEN "fsync" ELSE "cerrar"]

\* os.replace(tmp, target): the target becomes the temporary file
Reemplazar(gg) ==
    [gg EXCEPT !.destino = gg.tmp, !.tmp = NoFichero(gg.prog),
               !.pc = "fin", !.fin = "ok"]

\* a step raises.  _guardar_atomico removes the temporary file when it exists
\* (os.remove, whose own failure is swallowed) and raises again;
\* _atomic_write_json has no handler and leaves the file
Fallar(gg, borrado) ==
    [gg EXCEPT !.tmp = IF gg.prog = "lineas" /\ gg.pc # "crear" /\ borrado
                       THEN NoFichero(gg.prog) ELSE gg.tmp,
               !.pc = "fin", !.fin = "raise"]

GCrear ==
    /\ g.pc = "crear"
    /\ g' = CrearTemporal(g)
    /\ QuietoLB /\ Quieto11 /\ QuietoRT /\ QuietoV

GEscribir ==
    /\ g.pc = "escribir"
    /\ g.escritos < Len(g.datos)
    /\ g' = EscribirRegistro(g)
    /\ QuietoLB /\ Quieto11 /\ QuietoRT /\ QuietoV

GTrasEscribir ==
    /\ g.pc = "escribir"
    /\ g.escritos = Len(g.datos)
    /\ g' = TrasEscribir(g)
    /\ QuietoLB /\ Quieto11 /\ QuietoRT /\ QuietoV

GFsync ==
    /\ g.pc = "fsync"
    /\ g' = [g EXCEPT !.fsync = TRUE, !.pc = "cerrar"]
    /\ QuietoLB /\ Quieto11 /\ QuietoRT /\ QuietoV

GCerrar ==
    /\ g.pc = "cerrar"
    /\ g' = [g EXCEPT !.pc = "replace"]
    /\ QuietoLB /\ Quieto11 /\ QuietoRT /\ QuietoV

GReplace ==
    /\ g.pc = "replace"
    /\ g' = Reemplazar(g)
    /\ QuietoLB /\ Quieto11 /\ QuietoRT /\ QuietoV

GFallo ==
    /\ g.pc # "fin"
    /\ \E borrado \in BOOLEAN : g' = Fallar(g, borrado)
    /\ QuietoLB /\ Quieto11 /\ QuietoRT /\ QuietoV

\* the process dies: nothing more is done
GCrash ==
    /\ g.pc # "fin"
    /\ g' = [g EXCEPT !.pc = "fin", !.fin = "crash"]
    /\ QuietoLB /\ Quieto11 /\ QuietoRT /\ QuietoV

NextGuardar ==
    \/ GCrear
    \/ GEscribir
    \/ GTrasEscribir
    \/ GFsync
    \/ GCerrar
    \/ GReplace
    \/ GFallo
    \/ GCrash

SpecGuardar == InitGuardar /\ [][NextGuardar]_vars

----------------------------------------------------------------------------
(* Binding a store to what the disk holds: Inventario(ruta_archivo) of the  *)
(* line-based store and Inventario.cargar of Semana11, each on one file    *)
(* drawn from the lines and the entries below.                             *)

MaxLineas == 3

\* lines a file may hold: three records (two of them under id 1), a line of two
\* columns, a quantity that is no number, a negative quantity, a blank line
LineasCarga ==
    { a_linea(Rec(1, <<"a">>, 1, 1)),
      a_linea(Rec(2, <<"b">>, 0, 2)),
      a_linea(Rec(1, <<"c">>, 0, 2)),
      LineaCorrupta,
      <<"3", DELIM, "c", DELIM, "x", DELIM, "1", ".", "0", NL>>,
      <<"3", DELIM, "c", DELIM, "-", "1", DELIM, "1", ".", "0", NL>>,
      <<NL>> }

\* entries the "productos" list may hold: three products (two of them under
\* id 1), a field missing, a quantity that is no number, a negative quantity
EntradasCarga ==
    { E11(1, <<"a">>, 1, 2),
      E11(2, <<"b">>, 0, 2),
      E11(1, <<"c">>, 0, 1),
      [E11(3, <<"c">>, 1, 2) EXCEPT !.forma = "falta"],
      [E11(3, <<"c">>, 1, 2) EXCEPT !.forma = "nonum"],
      E11(3, <<"c">>, -1, 2) }

SecuenciasDe(S) == UNION {[1..n -> S] : n \in 0..MaxLineas}

RECURSIVE Unir(_)
Unir(ls) == IF ls = <<>> THEN <<>> ELSE Head(ls) \o Unir(Tail(ls))

ArchivosCarga ==
    {Ausente} \cup {Fichero(Unir(ls)) : ls \in SecuenciasDe(LineasCarga)}

\* no file, a file of zero bytes, text that is no JSON, a list of entries
DiscosCarga ==
    {SinDisco, [tipo |-> "vacio", productos |-> <<>>],
     [tipo |-> "invalido", productos |-> <<>>]}
    \cup {Json(ds) : ds \in SecuenciasDe(EntradasCarga)}

\* the Semana11 store cargar is called on: new, or holding one product
ViejoCarga == agregar(<<>>, IndiceVacio, Producto11(2, <<"z">>, 1, 2).p)

Soportes ==
    {[fase |-> "lineas", archivo |-> a, disco |-> SinDisco, viejo |-> FALSE] :
        a \in ArchivosCarga}
    \cup {[fase |-> "json", archivo |-> Ausente, disco |-> d, viejo |-> v] :
            d \in DiscosCarga, v \in BOOLEAN}

InitCarga ==
    \E s \in Soportes :
        /\ fase = s.fase
        /\ archivo = s.archivo
        /\ disco = s.disco
        /\ items = IF s.viejo THEN ViejoCarga.items ELSE <<>>
        /\ indice = IF s.viejo THEN ViejoCarga.indice ELSE IndiceVacio
        /\ productos = <<>>
        /\ ultimo = [op |-> "init", res |-> "True", intentos |-> 0, ambos |-> FALSE]
        /\ avisos = <<>>
        /\ app = SinApp
        /\ cuenta = SinCuenta
        /\ hilos = SinHilos
        /\ vista = SinVista
        /\ ult11 = [op |-> "init", res |-> "ok"]
        /\ rt = 0
        /\ g = 0

\* Inventario.__init__ of the line-based store: _asegurar_archivo, then
\* _cargar_desde_archivo
ConstruirInventario ==
    /\ fase = "lineas"
    /\ \E permitido \in BOOLEAN :
           LET arch == asegurar_archivo(archivo, permitido)
           IN  /\ archivo' = arch
               /\ productos' = cargar_desde_archivo(arch)
               /\ avisos' = avisos_de_carga(arch)
    /\ fase' = "construido"
    /\ UNCHANGED <<ultimo, vista, hilos, app, cuenta>>
    /\ UNCHANGED <<items, indice, disco, ult11>>
    /\ QuietoRT /\ QuietoG

\* inv.cargar(data_file) of Semana11
Cargar11 ==
    /\ fase = "json"
    /\ LET r == cargar(items, indice, disco)
       IN  /\ items' = r.items
           /\ indice' = r.indice
           /\ ult11' = [op |-> "cargar", res |-> r.res]
    /\ fase' = "cargado"
    /\ UNCHANGED disco
    /\ QuietoLB /\ QuietoRT /\ QuietoG /\ QuietoV

NextCarga ==
    \/ ConstruirInventario
    \/ Cargar11

SpecCarga == InitCarga /\ [][NextCarga]_vars

----------------------------------------------------------------------------
(* The read-only methods.  Semana11: on the stores agregar, eliminar,      *)
(* actualizar_cantidad and actualizar_precio build from an empty one.      *)
(* Line-based store: on the list loaded from a file.  A call leaves the    *)
(* store alone and hands its answer to the caller, who then goes on.       *)

Terminos == {<<>>, <<" ">>, <<"a">>, <<" ", "B">>}
\* the thresholds of bajo_stock; 5 is the default of the parameter
Umbrales == {0, 1, 5}

InitConsulta ==
    \E previo \in ArchivosPrevios, prog \in {"metodos", "lineas"} :
        /\ fase = prog
        /\ archivo = IF prog = "lineas" THEN previo ELSE Ausente
        /\ productos = IF prog = "lineas" THEN cargar_desde_archivo(previo)
                       ELSE <<>>
        /\ ultimo = [op |-> "init", res |-> "True", intentos |-> 0, ambos |-> FALSE]
        /\ avisos = <<>>
        /\ app = SinApp
        /\ cuenta = SinCuenta
        /\ hilos = SinHilos
        /\ vista = SinVista
        /\ items = <<>>
        /\ indice = IndiceVacio
        /\ disco = SinDisco
        /\ ult11 = [op |-> "init", res |-> "ok"]
        /\ rt = 0
        /\ g = 0

BuscarPorNombre ==
    /\ fase = "lineas"
    /\ \E t \in Terminos :
           vista' = [op |-> "buscar_por_nombre", patron |-> t,
                     res |-> buscar_por_nombre(productos, t)]
    /\ fase' = "visto_lineas"
    /\ UNCHANGED <<avisos, hilos, app, cuenta>>
    /\ QuietoLB /\ UNCHANGED <<items, indice, disco, ult11>> /\ QuietoRT /\ QuietoG

BuscarPorNombre11 ==
    /\ fase = "metodos"
    /\ \E t \in Terminos :
           vista' = [op |-> "buscar_por_nombre11", patron |-> t,
                     res |-> buscar_por_nombre11(items, t)]
    /\ fase' = "visto"
    /\ UNCHANGED <<avisos, hilos, app, cuenta>>
    /\ QuietoLB /\ UNCHANGED <<items, indice, disco, ult11>> /\ QuietoRT /\ QuietoG

BuscarExactos ==
    /\ fase = "metodos"
    /\ \E t \in Terminos :
           /\ \E r \in buscar_exactos(items, indice, t) :
                  vista' = [op |-> "buscar_exactos", patron |-> t, res |-> r]
           /\ indice' = bucket_get(indice, Clave(t)).indice
    /\ fase' = "visto"
    /\ UNCHANGED <<avisos, hilos, app, cuenta>>
    /\ QuietoLB /\ UNCHANGED <<items, disco, ult11>> /\ QuietoRT /\ QuietoG

ListarTodos ==
    /\ fase = "metodos"
    /\ vista' = [op |-> "listar_todos", patron |-> <<>>,
                 res |-> listar_todos(items)]
    /\ fase' = "visto"
    /\ UNCHANGED <<avisos, hilos, app, cuenta>>
    /\ QuietoLB /\ UNCHANGED <<items, indice, disco, ult11>> /\ QuietoRT /\ QuietoG

BajoStock ==
    /\ fase = "metodos"
    /\ \E u \in Umbrales :
           vista' = [op |-> "bajo_stock", patron |-> u,
                     res |-> bajo_stock(items, u)]
    /\ fase' = "visto"
    /\ UNCHANGED <<avisos, hilos, app, cuenta>>
    /\ QuietoLB /\ UNCHANGED <<items, indice, disco, ult11>> /\ QuietoRT /\ QuietoG

\* mostrar_todos(), or a read of the productos property: the same expression
MostrarTodos ==
    /\ fase = "lineas"
    /\ \E op \in {"mostrar_todos", "productos"} :
           vista' = [op |-> op, patron |-> <<>>, res |-> mostrar_todos(productos)]
    /\ fase' = "visto_lineas"
    /\ UNCHANGED <<avisos, hilos, app, cuenta>>
    /\ QuietoLB /\ UNCHANGED <<items, indice, disco, ult11>> /\ QuietoRT /\ QuietoG

\* the caller changes the list it was handed (res.pop()): the list is the
\* caller's own
CallerPop ==
    /\ fase \in {"visto", "visto_lineas"}
    /\ vista.op \in {"listar_todos", "mostrar_todos", "productos"}
    /\ vista.res # <<>>
    /\ vista' = [vista EXCEPT !.res = SubSeq(vista.res, 1, Len(vista.res) - 1)]
    /\ fase' = IF fase = "visto" THEN "usado" ELSE "usado_lineas"
    /\ UNCHANGED <<avisos, hilos, app, cuenta>>
    /\ QuietoLB /\ UNCHANGED <<items, indice, disco, ult11>> /\ QuietoRT /\ QuietoG

\* the caller assigns to the cantidad of an element of the list it was handed.
\* On a tuple of listar_todos the assignment raises TypeError.  On an element
\* of mostrar_todos / productos, res[k].cantidad = c runs the cantidad setter
\* of that Producto, which is the store's own object
CallerAsigna ==
    /\ fase \in {"visto", "visto_lineas"}
    /\ vista.op \in {"listar_todos", "mostrar_todos", "productos"}
    /\ \E k \in 1..Len(vista.res), c \in {PyInt(0), PyInt(-1)} :
           IF vista.op = "listar_todos"
           THEN UNCHANGED productos
           ELSE LET r == SetCantidad(c)
                IN  productos' =
                        IF r.ok
                        THEN [productos EXCEPT ![vista.res[k].ref].cantidad = r.v]
                        ELSE productos
    /\ fase' = IF fase = "visto" THEN "usado" ELSE "usado_lineas"
    /\ UNCHANGED <<archivo, ultimo, avisos, vista, hilos, app, cuenta>>
    /\ UNCHANGED <<items, indice, disco, ult11>> /\ QuietoRT /\ QuietoG

\* the caller is done with the answer
Volver ==
    /\ fase \in {"visto", "visto_lineas", "usado", "usado_lineas"}
    /\ fase' = IF fase \in {"visto", "usado"} THEN "metodos" ELSE "lineas"
    /\ vista' = SinVista
    /\ UNCHANGED <<avisos, hilos, app, cuenta>>
    /\ QuietoLB /\ UNCHANGED <<items, indice, disco, ult11>> /\ QuietoRT /\ QuietoG

NextConsulta ==
    \/ Agregar
    \/ Eliminar
    \/ ActualizarCantidad
    \/ ActualizarPrecio
    \/ BuscarPorNombre
    \/ BuscarPorNombre11
    \/ BuscarExactos
    \/ ListarTodos
    \/ BajoStock
    \/ MostrarTodos
    \/ CallerPop
    \/ CallerAsigna
    \/ Volver

SpecConsulta == InitConsulta /\ [][NextConsulta]_vars

----------------------------------------------------------------------------
(* SpecProducto: one Producto object of either program, built by its       *)
(* constructor and then written through its setters.  rt holds the class,  *)
(* the object, the last call, its arguments and how it ended.              *)

\* a cantidad setter that stores the value before it validates it
cantidad_setter_asigna_antes(p, value) ==
    LET r == SetCantidad(value)
    IN  [ok |-> r.ok,
         p |-> IF value.t = "int" THEN [p EXCEPT !.cantidad = value.v] ELSE p]

\* Producto.cantidad setter (line-based store) on the object p: the two checks
\* raise before self._cantidad is assigned
cantidad_setter(p, value) ==
    LET r == SetCantidad(value)
    IN  [ok |-> r.ok, p |-> IF r.ok THEN [p EXCEPT !.cantidad = r.v] ELSE p]

\* Producto.precio setter (line-based store) on the object p: float(value) and
\* the sign check raise before self._precio is assigned
precio_setter(p, value) ==
    LET r == SetPrecio(value)
    IN  [ok |-> r.ok, p |-> IF r.ok THEN [p EXCEPT !.precio = r.v] ELSE p]

\* Producto.set_cantidad / Producto.set_precio of Semana11 on the object p: the
\* conversion and the sign check raise before the field is assigned
set_cantidad_en(p, nueva_cantidad) ==
    LET r == set_cantidad(nueva_cantidad)
    IN  [ok |-> r.ok, p |-> IF r.ok THEN [p EXCEPT !.cantidad = r.v] ELSE p]

set_precio_en(p, nuevo_precio) ==
    LET r == set_precio(nuevo_precio)
    IN  [ok |-> r.ok, p |-> IF r.ok THEN [p EXCEPT !.precio = r.v] ELSE p]

IdsProducto == (-1)..MaxId
NombresProducto == {<<"a">>, <<" ">>}
CantidadesProducto == (-1)..1
\* prices as the line-based store receives them: -0.5, 1.0, an int, a str
PreciosProducto == {PyFloat(-1), PyFloat(2), PyInt(1), PyStr(<<"x">>)}
\* prices as Semana11 receives them
PreciosProducto11 == {-1, 2}

InitProducto ==
    /\ rt = [clase |-> "ninguna", p |-> SinProducto, op |-> "inicio",
             args |-> <<>>, res |-> "ok"]
    /\ productos = <<>>
    /\ archivo = Ausente
    /\ ultimo = [op |-> "init", res |-> "True", intentos |-> 0, ambos |-> FALSE]
    /\ avisos = <<>>
    /\ app = SinApp
    /\ cuenta = SinCuenta
    /\ hilos = SinHilos
    /\ vista = SinVista
    /\ items = <<>>
    /\ indice = IndiceVacio
    /\ disco = SinDisco
    /\ fase = "parado"
    /\ ult11 = [op |-> "init", res |-> "ok"]
    /\ g = 0

\* Producto(id, nombre, cantidad, precio) of the line-based store
NuevoProducto ==
    /\ rt.op = "inicio"
    /\ \E i \in IdsProducto, n \in NombresProducto, c \in CantidadesProducto,
          h \in PreciosProducto :
           LET r == Producto(PyInt(i), PyStr(n), PyInt(c), h)
           IN  rt' = [clase |-> "lineas", p |-> r.p, op |-> "init",
                      args |-> <<PyInt(i), PyStr(n), PyInt(c), h>>,
                      res |-> IF r.ok THEN "ok" ELSE "raise"]
    /\ QuietoLB /\ Quieto11 /\ QuietoG /\ QuietoV

\* Producto(id, nombre, cantidad, precio) of Semana11
NuevoProducto11 ==
    /\ rt.op = "inicio"
    /\ \E i \in IdsProducto, n \in NombresProducto, c \in CantidadesProducto,
          h \in PreciosProducto11 :
           LET r == Producto11(i, n, c, h)
           IN  rt' = [clase |-> "s11", p |-> r.p, op |-> "init",
                      args |-> <<i, n, c, h>>,
                      res |-> IF r.ok THEN "ok" ELSE "raise"]
    /\ QuietoLB /\ Quieto11 /\ QuietoG /\ QuietoV

\* an object exists once its constructor has returned
HayProducto == rt.op # "inicio" /\ ~(rt.op = "init" /\ rt.res = "raise")

\* p.cantidad = c
AsignarCantidad ==
    /\ HayProducto /\ rt.clase = "lineas"
    /\ \E c \in {PyInt(k) : k \in CantidadesProducto} \cup {PyFloat(2)} :
           LET r == cantidad_setter(rt.p, c)
           IN  rt' = [rt EXCEPT !.p = r.p, !.op = "cantidad", !.args = <<c>>,
                                !.res = IF r.ok THEN "ok" ELSE "raise"]
    /\ QuietoLB /\ Quieto11 /\ QuietoG /\ QuietoV

\* p.precio = h
AsignarPrecio ==
    /\ HayProducto /\ rt.clase = "lineas"
    /\ \E h \in PreciosProducto :
           LET r == precio_setter(rt.p, h)
           IN  rt' = [rt EXCEPT !.p = r.p, !.op = "precio", !.args = <<h>>,
                                !.res = IF r.ok THEN "ok" ELSE "raise"]
    /\ QuietoLB /\ Quieto11 /\ QuietoG /\ QuietoV

\* p.set_cantidad(c)
SetCantidad11 ==
    /\ HayProducto /\ rt.clase = "s11"
    /\ \E c \in CantidadesProducto :
           LET r == set_cantidad_en(rt.p, c)
           IN  rt' = [rt EXCEPT !.p = r.p, !.op = "set_cantidad", !.args = <<c>>,
                                !.res = IF r.ok THEN "ok" ELSE "raise"]
    /\ QuietoLB /\ Quieto11 /\ QuietoG /\ QuietoV

\* p.set_precio(h)
SetPrecio11 ==
    /\ HayProducto /\ rt.clase = "s11"
    /\ \E h \in PreciosProducto11 :
           LET r == set_precio_en(rt.p, h)
           IN  rt' = [rt EXCEPT !.p = r.p, !.op = "set_precio", !.args = <<h>>,
                                !.res = IF r.ok THEN "ok" ELSE "raise"]
    /\ QuietoLB /\ Quieto11 /\ QuietoG /\ QuietoV

NextProducto ==
    \/ NuevoProducto
    \/ NuevoProducto11
    \/ AsignarCantidad
    \/ AsignarPrecio
    \/ SetCantidad11
    \/ SetPrecio11

SpecProducto == InitProducto /\ [][NextProducto]_vars


----------------------------------------------------------------------------
(* SpecHilos: two callers on one line-based Inventario with no lock.  A    *)
(* call is three steps that the other caller's steps may come between: the *)
(* scan and the change of _productos, the persist, and, when the persist   *)
(* raised, the except branch.  hilos holds each caller's place and locals, *)
(* the list before the calls, the order of the changes and whether a call  *)
(* began while the other was between its change and its end.               *)

\* the calls a caller may make: cantidad is the argument of actualizar_por_id
LlamadasHilos ==
    {[op |-> o, id |-> i, cantidad |-> 0] :
        o \in {"anadir", "eliminar", "actualizar"}, i \in Ids}

\* what a call does before its persist: [productos, sigue, i, backup], sigue =
\* FALSE when it returns False at once.  i and backup are the locals the
\* except branch uses (i of enumerate counted from 1)
mutar(prods, ll) ==
    LET i == Posicion(prods, ll.id)
        nada == [productos |-> prods, sigue |-> FALSE, i |-> 0,
                 backup |-> SinProducto]
    IN  CASE ll.op = "anadir" ->
               IF i # 0 THEN nada
               ELSE [productos |-> Append(prods, Rec(ll.id, <<"n">>, 1, 2)),
                     sigue |-> TRUE, i |-> 0, backup |-> SinProducto]
          [] ll.op = "eliminar" ->
               IF i = 0 THEN nada
               ELSE [productos |-> Quitar(prods, i), sigue |-> TRUE,
                     i |-> i, backup |-> prods[i]]
          [] OTHER ->
               IF i = 0 THEN nada
               ELSE [productos |-> [prods EXCEPT ![i].cantidad = ll.cantidad],
                     sigue |-> TRUE, i |-> i, backup |-> prods[i]]

\* an except branch that restores nothing
deshacer_nada(prods, ll, i, backup) == prods

\* the except branch of a call on the list as it is by then: pop() of the last
\* element; insert(i, backup), which appends when i is past the end;
\* _productos[i] = prev, which raises IndexError when i is past the end
deshacer(prods, ll, i, backup) ==
    CASE ll.op = "anadir" -> IF prods = <<>> THEN prods ELSE Pop(prods)
      [] ll.op = "eliminar" ->
           IF i > Len(prods) THEN Append(prods, backup)
           ELSE Insertar(prods, i, backup)
      [] OTHER ->
           IF i > Len(prods) THEN prods ELSE [prods EXCEPT ![i] = backup]

ListasHilos ==
    {<<>>, <<Rec(1, <<"a">>, 1, 2)>>,
     <<Rec(1, <<"a">>, 1, 2), Rec(2, <<"b">>, 1, 2)>>}

EnReposo ==
    [pc |-> "inicio", ll |-> [op |-> "ninguna", id |-> 0, cantidad |-> 0],
     i |-> 0, backup |-> SinProducto, res |-> "ninguno"]

InitHilos ==
    \E lista \in ListasHilos :
        /\ productos = lista
        /\ archivo = Fichero(Serializar(lista))
        /\ hilos = [c |-> <<EnReposo, EnReposo>>, ini |-> lista,
                    orden |-> <<>>, solapadas |-> FALSE]
        /\ ultimo = [op |-> "init", res |-> "True", intentos |-> 0, ambos |-> FALSE]
        /\ avisos = <<>>
        /\ app = SinApp
        /\ cuenta = SinCuenta
        /\ vista = SinVista
        /\ items = <<>>
        /\ indice = IndiceVacio
        /\ disco = SinDisco
        /\ fase = "hilos"
        /\ ult11 = [op |-> "init", res |-> "ok"]
        /\ rt = 0
        /\ g = 0

\* a caller enters a call and runs it up to the persist
HiloMuta ==
    /\ fase = "hilos"
    /\ \E c \in 1..2, ll \in LlamadasHilos :
           LET m == mutar(productos, ll)
               otro == hilos.c[3 - c]
           IN  /\ hilos.c[c].pc = "inicio"
               /\ productos' = m.productos
               /\ hilos' = [hilos EXCEPT
                      !.c[c] = [pc |-> IF m.sigue THEN "guardar" ELSE "fin",
                                ll |-> ll, i |-> m.i, backup |-> m.backup,
                                res |-> IF m.sigue THEN "ninguno" ELSE "False"],
                      !.orden = IF m.sigue THEN Append(hilos.orden, c)
                                ELSE hilos.orden,
                      !.solapadas = hilos.solapadas
                                       \/ otro.pc \in {"guardar", "deshacer"}]
    /\ UNCHANGED <<archivo, ultimo, avisos, vista, app, cuenta>>
    /\ Quieto11 /\ QuietoRT /\ QuietoG

\* self._guardar_atomico() of a caller: it writes the list as it is by then
HiloGuarda ==
    /\ fase = "hilos"
    /\ \E c \in 1..2, falla \in Fallas :
           LET s == guardar_atomico(productos, archivo, falla)
           IN  /\ hilos.c[c].pc = "guardar"
               /\ archivo' = s.archivo
               /\ hilos' = [hilos EXCEPT
                      !.c[c].pc = IF s.ok THEN "fin" ELSE "deshacer",
                      !.c[c].res = IF s.ok THEN "True" ELSE "ninguno"]
    /\ UNCHANGED <<productos, ultimo, avisos, vista, app, cuenta>>
    /\ Quieto11 /\ QuietoRT /\ QuietoG

\* the except branch of a caller whose persist raised; the call then raises
HiloDeshace ==
    /\ fase = "hilos"
    /\ \E c \in 1..2 :
           LET h == hilos.c[c]
           IN  /\ h.pc = "deshacer"
               /\ productos' = deshacer(productos, h.ll, h.i, h.backup)
               /\ hilos' = [hilos EXCEPT !.c[c].pc = "fin",
                                         !.c[c].res = "raise"]
    /\ UNCHANGED <<archivo, ultimo, avisos, vista, app, cuenta>>
    /\ Quieto11 /\ QuietoRT /\ QuietoG

NextHilos ==
    \/ HiloMuta
    \/ HiloGuarda
    \/ HiloDeshace

SpecHilos == InitHilos /\ [][NextHilos]_vars


----------------------------------------------------------------------------
(* SpecBanco (Semana6): one account, opened and then used through          *)
(* depositar and retirar.  The amounts are Python floats: binary floating  *)
(* point, every sum and difference rounded to the nearest value of         *)
(* MantisaBits significant bits, ties to the even one (53 bits in CPython; *)
(* the model keeps the rounding rule and shortens the mantissa).  A value  *)
(* is written as an integer count of the smallest unit.                    *)

MantisaBits == 3
MaxMonto == 20
MaxSaldo == 40

Abs(n) == IF n < 0 THEN -n ELSE n

\* the power of two by which a magnitude exceeds MantisaBits bits
RECURSIVE Paso(_, _)
Paso(m, e) == IF m < (2 ^ MantisaBits) * e THEN e ELSE Paso(m, 2 * e)

\* the float nearest to the real number n
Redondear(n) ==
    LET m == Abs(n)
        e == Paso(m, 1)
        q == m \div e
        r == m % e
        arriba == 2 * r > e \/ (2 * r = e /\ q % 2 = 1)
        v == (IF arriba THEN q + 1 ELSE q) * e
    IN  IF n < 0 THEN -v ELSE v

\* the floats of magnitude up to MaxMonto
Flotantes == {n \in (-MaxMonto)..MaxMonto : Redondear(n) = n}

\* CuentaBancaria.depositar: [saldo, ok]
depositar(saldo, monto) ==
    IF monto > 0 THEN [saldo |-> Redondear(saldo + monto), ok |-> TRUE]
    ELSE [saldo |-> saldo, ok |-> FALSE]

\* CuentaBancaria.retirar, which CuentaAhorros.retirar calls
retirar(saldo, monto) ==
    IF monto <= saldo THEN [saldo |-> Redondear(saldo - monto), ok |-> TRUE]
    ELSE [saldo |-> saldo, ok |-> FALSE]

\* CuentaCorriente.retirar
retirar_corriente(saldo, limite_sobregiro, monto) ==
    LET saldo_disponible == Redondear(saldo + limite_sobregiro)
    IN  IF monto <= saldo_disponible
        THEN [saldo |-> Redondear(saldo - monto), ok |-> TRUE]
        ELSE [saldo |-> saldo, ok |-> FALSE]

\* an account opened with a non-negative balance; a CuentaCorriente has an
\* overdraft limit, the other classes none
InitBanco ==
    /\ \E clase \in {"CuentaBancaria", "CuentaAhorros", "CuentaCorriente"},
          saldo_inicial \in {n \in Flotantes : n >= 0},
          limite \in {n \in Flotantes : n >= 0} :
           cuenta = [clase |-> clase,
                     limite |-> IF clase = "CuentaCorriente" THEN limite ELSE 0,
                     saldo |-> saldo_inicial,
                     op |-> "abrir", monto |-> 0, ok |-> TRUE,
                     antes |-> saldo_inicial]
    /\ productos = <<>>
    /\ archivo = Ausente
    /\ ultimo = [op |-> "init", res |-> "True", intentos |-> 0, ambos |-> FALSE]
    /\ avisos = <<>>
    /\ app = SinApp
    /\ hilos = SinHilos
    /\ vista = SinVista
    /\ items = <<>>
    /\ indice = IndiceVacio
    /\ disco = SinDisco
    /\ fase = "banco"
    /\ ult11 = [op |-> "init", res |-> "ok"]
    /\ rt = 0
    /\ g = 0

Depositar ==
    /\ fase = "banco"
    /\ \E monto \in Flotantes :
           LET r == depositar(cuenta.saldo, monto)
           IN  /\ Abs(r.saldo) <= MaxSaldo
               /\ cuenta' = [cuenta EXCEPT !.saldo = r.saldo, !.op = "depositar",
                                           !.monto = monto, !.ok = r.ok,
                                           !.antes = cuenta.saldo]
    /\ UNCHANGED <<avisos, vista, hilos, app>>
    /\ QuietoLB /\ Quieto11 /\ QuietoRT /\ QuietoG

Retirar ==
    /\ fase = "banco"
    /\ \E monto \in Flotantes :
           LET r == IF cuenta.clase = "CuentaCorriente"
                    THEN retirar_corriente(cuenta.saldo, cuenta.limite, monto)
                    ELSE retirar(cuenta.saldo, monto)
           IN  /\ Abs(r.saldo) <= MaxSaldo
               /\ cuenta' = [cuenta EXCEPT !.saldo = r.saldo, !.op = "retirar",
                                           !.monto = monto, !.ok = r.ok,
                                           !.antes = cuenta.saldo]
    /\ UNCHANGED <<avisos, vista, hilos, app>>
    /\ QuietoLB /\ Quieto11 /\ QuietoRT /\ QuietoG

NextBanco ==
    \/ Depositar
    \/ Retirar

SpecBanco == InitBanco /\ [][NextBanco]_vars


----------------------------------------------------------------------------
(* SpecGui (Semana13): the App window under the events of its user.  app   *)
(* holds _next_id, the rows of the table in order (the values of each      *)
(* Treeview item), the positions of the selected rows, the text of the     *)
(* Entry, every id ever given to a row, and the last event with _next_id,  *)
(* the number of rows and the text of the Entry before it.                 *)

MaxFilas == 4
TextosGui == {<<>>, <<" ">>, <<"a">>, <<" ", "b">>}

\* the rows left when the rows at the positions sel are deleted
SinFilas(filas, sel) ==
    LET quedan(k) == Cardinality({j \in 1..k : j \notin sel})
    IN  [n \in 1..quedan(Len(filas)) |->
            filas[CHOOSE k \in 1..Len(filas) : k \notin sel /\ quedan(k) = n]]

Evento(a, nombre) ==
    [a EXCEPT !.op = nombre, !.antes = [next_id |-> a.next_id,
                                       filas |-> Len(a.filas),
                                       entry |-> a.entry]]

\* add_item that numbers a row by the count of rows
add_item_por_cuenta(a) ==
    LET text == Strip(a.entry)
        e == Evento(a, "add_item")
    IN  IF text = <<>> THEN e
        ELSE [e EXCEPT !.filas = Append(a.filas, [id |-> Len(a.filas) + 1,
                                                  texto |-> text]),
                       !.dados = Append(a.dados, Len(a.filas) + 1),
                       !.next_id = a.next_id + 1,
                       !.entry = <<>>]

\* App.add_item
add_item(a) ==
    LET text == Strip(a.entry)
        e == Evento(a, "add_item")
    IN  IF text = <<>> THEN e
        ELSE [e EXCEPT !.filas = Append(a.filas, [id |-> a.next_id,
                                                  texto |-> text]),
                       !.dados = Append(a.dados, a.next_id),
                       !.next_id = a.next_id + 1,
                       !.entry = <<>>]

\* App.__init__: _next_id = 1, an empty table, an empty Entry
InitGui ==
    /\ app = [next_id |-> 1, filas |-> <<>>, seleccion |-> {}, entry |-> <<>>,
              dados |-> <<>>, op |-> "init",
              antes |-> [next_id |-> 1, filas |-> 0, entry |-> <<>>]]
    /\ productos = <<>>
    /\ archivo = Ausente
    /\ ultimo = [op |-> "init", res |-> "True", intentos |-> 0, ambos |-> FALSE]
    /\ avisos = <<>>
    /\ cuenta = SinCuenta
    /\ hilos = SinHilos
    /\ vista = SinVista
    /\ items = <<>>
    /\ indice = IndiceVacio
    /\ disco = SinDisco
    /\ fase = "gui"
    /\ ult11 = [op |-> "init", res |-> "ok"]
    /\ rt = 0
    /\ g = 0

\* the user types in the Entry
Teclear ==
    /\ fase = "gui"
    /\ \E t \in TextosGui : app' = [app EXCEPT !.entry = t, !.op = "teclear"]
    /\ UNCHANGED <<avisos, vista, hilos, cuenta>>
    /\ QuietoLB /\ Quieto11 /\ QuietoRT /\ QuietoG

\* the user selects rows of the table
Seleccionar ==
    /\ fase = "gui"
    /\ \E sel \in SUBSET (1..Len(app.filas)) :
           app' = [app EXCEPT !.seleccion = sel, !.op = "seleccionar"]
    /\ UNCHANGED <<avisos, vista, hilos, cuenta>>
    /\ QuietoLB /\ Quieto11 /\ QuietoRT /\ QuietoG

\* the Agregar button or <Return>
AddItem ==
    /\ fase = "gui"
    /\ app.next_id <= MaxFilas
    /\ app' = add_item(app)
    /\ UNCHANGED <<avisos, vista, hilos, cuenta>>
    /\ QuietoLB /\ Quieto11 /\ QuietoRT /\ QuietoG

\* App.smart_clean: the selected rows are deleted; with no selection the Entry
\* is cleared
SmartClean ==
    /\ fase = "gui"
    /\ LET e == Evento(app, "smart_clean")
       IN  app' = IF app.seleccion # {}
                  THEN [e EXCEPT !.filas = SinFilas(app.filas, app.seleccion),
                                 !.seleccion = {}]
                  ELSE [e EXCEPT !.entry = <<>>]
    /\ UNCHANGED <<avisos, vista, hilos, cuenta>>
    /\ QuietoLB /\ Quieto11 /\ QuietoRT /\ QuietoG

\* App.delete_selected: nothing without a selection; else the rows are deleted
\* when the user answers yes
DeleteSelected ==
    /\ fase = "gui"
    /\ \E si \in BOOLEAN :
           LET e == Evento(app, "delete_selected")
           IN  app' = IF app.seleccion # {} /\ si
                      THEN [e EXCEPT !.filas = SinFilas(app.filas, app.seleccion),
                                     !.seleccion = {}]
                      ELSE e
    /\ UNCHANGED <<avisos, vista, hilos, cuenta>>
    /\ QuietoLB /\ Quieto11 /\ QuietoRT /\ QuietoG

\* App.clear_all: nothing on an empty table; else every row is deleted when the
\* user answers yes
ClearAll ==
    /\ fase = "gui"
    /\ \E si \in BOOLEAN :
           LET e == Evento(app, "clear_all")
           IN  app' = IF app.filas # <<>> /\ si
                      THEN [e EXCEPT !.filas = <<>>, !.seleccion = {}]
                      ELSE e
    /\ UNCHANGED <<avisos, vista, hilos, cuenta>>
    /\ QuietoLB /\ Quieto11 /\ QuietoRT /\ QuietoG

NextGui ==
    \/ Teclear
    \/ Seleccionar
    \/ AddItem
    \/ SmartClean
    \/ DeleteSelected
    \/ ClearAll

SpecGui == InitGui /\ [][NextGui]_vars


----------------------------------------------------------------------------
(* Properties of the line-based store.                                     *)

\* C1: when anadir_producto is called with a new id and _guardar_atomico
\* fails, the call raises, the list is the pre-call list and the target file
\* is unchanged.
C1_AnadirFalloRestaura ==
    [][(ultimo'.op = "anadir" /\ ultimo'.res = "raise")
        => (productos' = productos /\ archivo' = archivo)]_vars

\* a failed persist of anadir_producto on a store that holds a record
C1_Testigo ==
    /\ ultimo.op = "anadir"
    /\ ultimo.res = "raise"
    /\ ultimo.intentos = 1
    /\ productos # <<>>

\* C2: when eliminar_por_id is called with a present id and _guardar_atomico
\* fails, the call raises and the whole list, order and contents, equals the
\* pre-call list.
C2_EliminarFalloRestaura ==
    [][(ultimo'.op = "eliminar" /\ ultimo'.res = "raise")
        => productos' = productos]_vars

\* a failed persist of eliminar_por_id on a list of several records
C2_Testigo ==
    /\ ultimo.op = "eliminar"
    /\ ultimo.res = "raise"
    /\ Len(productos) >= 2

\* C3: when actualizar_por_id is called with a present id and
\* _guardar_atomico fails, the call raises and every record, the updated one
\* included, has its pre-call values, also when cantidad and precio were both
\* changed in the call.
C3_ActualizarFalloRestaura ==
    [][(ultimo'.op = "actualizar" /\ ultimo'.res = "raise")
        => productos' = productos]_vars

\* a failed persist of an actualizar_por_id that changed both fields
C3_Testigo ==
    /\ ultimo.op = "actualizar"
    /\ ultimo.res = "raise"
    /\ ultimo.ambos

\* C6: a new Inventario constructed on ruta_archivo holds the records the
\* store holds in memory (the store of the last successful persist).
C6_RecargaIgual ==
    cargar_desde_archivo(archivo) = productos

\* C10: anadir_producto with an id already present returns False, makes no
\* persist attempt and leaves the list and the file as they were.
C10_DuplicadoSinEfecto ==
    [][(ultimo'.op = "anadir" /\ ultimo'.res = "False")
        => (productos' = productos /\ archivo' = archivo
            /\ ultimo'.intentos = 0)]_vars

\* a rejected anadir_producto
C10_Testigo ==
    /\ ultimo.op = "anadir"
    /\ ultimo.res = "False"
    /\ \E i \in 1..Len(productos) : productos[i].id \in Ids

\* C11: eliminar_por_id and actualizar_por_id called with an id that is not in
\* the list return False, make no persist attempt and leave the list and the
\* file as they are, whatever the other arguments and whatever the disk would do.
C11_AusenteSinEfecto ==
    \A i \in Ids :
        Posicion(productos, i) = 0 =>
            LET igual == [productos |-> productos, archivo |-> archivo,
                          res |-> "False", intentos |-> 0]
            IN  \A falla \in Fallas :
                    /\ eliminar_por_id(productos, archivo, i, falla) = igual
                    /\ \A cambio \in Cambios :
                           actualizar_por_id(productos, archivo, i,
                                             cambio[1], cambio[2], falla) = igual

\* an actualizar_por_id that answered False on a store that holds records and
\* whose file is not what a persist would write
C11_Testigo ==
    /\ ultimo.op = "actualizar"
    /\ ultimo.res = "False"
    /\ productos # <<>>
    /\ archivo # Fichero(Serializar(productos))

\* C12: when actualizar_por_id on a present id raises a validation error (a
\* negative or non-integer cantidad, a negative or non-numeric precio), no
\* persist is attempted, the file is untouched and every record keeps its
\* pre-call values, also when the call gives a valid cantidad with an invalid
\* precio.
C12_InvalidoSinEfecto ==
    [][(ultimo'.op = "actualizar" /\ ultimo'.res = "invalido")
        => (productos' = productos /\ archivo' = archivo
            /\ ultimo'.intentos = 0)]_vars

\* a rejected actualizar_por_id whose cantidad was valid and new and whose
\* precio was invalid
C12_Testigo ==
    /\ ultimo.op = "actualizar"
    /\ ultimo.res = "invalido"
    /\ ultimo.ambos

\* C17: a call of anadir_producto, eliminar_por_id or actualizar_por_id that
\* reaches the persist (it returns True when the disk works) raises when the
\* persist fails, never returns True or False, has made exactly one persist
\* attempt and leaves the list and the file as before the call.
C17_FalloSeEleva ==
    \A i \in Ids, falla \in Fallas \ {"ninguna"} :
        LET nuevo == Producto(PyInt(i), PyStr(<<"a">>), PyInt(1), PyFloat(2)).p
            elevado == [productos |-> productos, archivo |-> archivo,
                        res |-> "raise", intentos |-> 1]
        IN  /\ anadir_producto(productos, archivo, nuevo, "ninguna").res = "True"
                   => anadir_producto(productos, archivo, nuevo, falla) = elevado
            /\ eliminar_por_id(productos, archivo, i, "ninguna").res = "True"
                   => eliminar_por_id(productos, archivo, i, falla) = elevado
            /\ \A cambio \in Cambios :
                   actualizar_por_id(productos, archivo, i,
                                     cambio[1], cambio[2], "ninguna").res = "True"
                   => actualizar_por_id(productos, archivo, i,
                                        cambio[1], cambio[2], falla) = elevado

\* an eliminar_por_id whose only persist attempt failed, on a file that exists
C17_Testigo ==
    /\ ultimo.op = "eliminar"
    /\ ultimo.res = "raise"
    /\ ultimo.intentos = 1
    /\ archivo.existe

\* C29: in every state reachable through the load of any file and any sequence
\* of anadir_producto, eliminar_por_id and actualizar_por_id calls (successful,
\* rejected or rolled back), no two records of the list have the same id.
C29_IdsDistintos ==
    \A i, j \in 1..Len(productos) :
        i # j => productos[i].id # productos[j].id

\* a rejected anadir_producto of an id the list already holds, among several
\* records
C29_Testigo ==
    /\ ultimo.op = "anadir"
    /\ ultimo.res = "False"
    /\ Len(productos) >= 2

----------------------------------------------------------------------------
(* Properties of binding a store to a file.                                *)

\* the line numbers of a file that hold a record (not blank, decoding), those
\* that are corrupt (not blank, not decoding), and the record of a line
Decodifican(arch) ==
    LET ls == Lineas(arch.texto)
    IN  {k \in 1..Len(ls) : Strip(ls[k]) # <<>> /\ desde_linea(ls[k]).ok}

Corruptas(arch) ==
    LET ls == Lineas(arch.texto)
    IN  {k \in 1..Len(ls) : Strip(ls[k]) # <<>> /\ ~desde_linea(ls[k]).ok}

RegistroDe(arch, k) == desde_linea(Lineas(arch.texto)[k]).p

\* the numbers of a set in ascending order
RECURSIVE EnOrden(_)
EnOrden(S) ==
    IF S = {} THEN <<>>
    ELSE LET m == CHOOSE x \in S : \A y \in S : x <= y
         IN  <<m>> \o EnOrden(S \ {m})

\* the positions of the entries of a JSON file that Producto.from_dict accepts
Validas11(dsk) ==
    {k \in 1..Len(dsk.productos) : from_dict(dsk.productos[k]).ok}

C14_EntradaMalaSaltada ==
    (fase = "cargado" /\ disco.tipo = "json") =>
        /\ ult11.res = "ok"
        /\ \A k \in Validas11(disco) : EnItems(items, disco.productos[k].id)

\* C15: after a load, an id that several valid entries of the file carry has
\* exactly one record in the store, with the values of the last such entry:
\* _cargar_desde_archivo of the line-based store and cargar of Semana11.
C15_UltimaGana ==
    /\ (fase = "construido" /\ archivo.existe) =>
           \A k \in Decodifican(archivo) :
               LET id_ == RegistroDe(archivo, k).id
                   ultima == CHOOSE m \in Decodifican(archivo) :
                                /\ RegistroDe(archivo, m).id = id_
                                /\ \A n \in Decodifican(archivo) :
                                       RegistroDe(archivo, n).id = id_ => n <= m
               IN  /\ Cardinality({i \in 1..Len(productos) :
                                     productos[i].id = id_}) = 1
                   /\ \E i \in 1..Len(productos) :
                          productos[i] = RegistroDe(archivo, ultima)
    /\ (fase = "cargado" /\ disco.tipo = "json") =>
           \A k \in Validas11(disco) :
               LET id_ == disco.productos[k].id
                   ultima == CHOOSE m \in Validas11(disco) :
                                /\ disco.productos[m].id = id_
                                /\ \A n \in Validas11(disco) :
                                       disco.productos[n].id = id_ => n <= m
               IN  /\ Cardinality({i \in 1..Len(items) : items[i].id = id_}) = 1
                   /\ \E i \in 1..Len(items) :
                          items[i] = from_dict(disco.productos[ultima]).p

\* C16: a store bound to a file that does not exist or is empty is empty and
\* the binding raises nothing: the constructor of the line-based store and
\* cargar of Semana11.
C16_AusenteOVacio ==
    /\ (fase = "construido" /\ (~archivo.existe \/ archivo.texto = <<>>))
           => productos = <<>>
    /\ (fase = "cargado" /\ disco.tipo \in {"ausente", "vacio"})
           => (ult11.res = "ok" /\ items = <<>>)

----------------------------------------------------------------------------
(* Properties of the read-only methods.                                    *)

\* C18: buscar_por_nombre answers the empty sequence when the pattern is empty
\* after trimming: the line-based store (Semana9, Semana9-10) and Semana11.
C18_PatronVacio ==
    (/\ fase \in {"visto", "visto_lineas"}
     /\ vista.op \in {"buscar_por_nombre", "buscar_por_nombre11"}
     /\ Strip(vista.patron) = <<>>)
        => vista.res = <<>>

\* C19: what buscar_por_nombre and buscar_exactos of Semana11 return is in
\* ascending order of id.
C19_BusquedaPorId ==
    (fase = "visto" /\ vista.op \in {"buscar_por_nombre11", "buscar_exactos"})
        => \A i, j \in 1..Len(vista.res) :
               i < j => vista.res[i].id < vista.res[j].id

\* C20: listar_todos returns the tuples (id, nombre, cantidad, precio) of the
\* records of _items, one per record, none missing, none repeated, in ascending
\* order of id.
C20_ListarTodos ==
    (fase = "visto" /\ vista.op = "listar_todos") =>
        /\ Len(vista.res) = Len(items)
        /\ \A i \in 1..Len(items) :
               \E j \in 1..Len(vista.res) :
                   vista.res[j] = <<items[i].id, items[i].nombre,
                                    items[i].cantidad, items[i].precio>>
        /\ \A i, j \in 1..Len(vista.res) :
               i < j => vista.res[i][1] < vista.res[j][1]

\* listar_todos on a store whose records were not inserted in id order
C20_Testigo ==
    /\ fase = "visto"
    /\ vista.op = "listar_todos"
    /\ Len(items) >= 2
    /\ items[1].id > items[2].id

\* C21: the listing of each store is a read-only projection: whatever the
\* caller does to the values handed out by listar_todos (Semana11) or by
\* mostrar_todos / productos (line-based store), the records held in the store
\* keep every field.
C21_ListadoSoloLectura ==
    [][(fase' \in {"usado", "usado_lineas"})
           => (items' = items /\ productos' = productos)]_vars

\* C24: a read operation (buscar_por_nombre, buscar_exactos, listar_todos,
\* bajo_stock of Semana11; buscar_por_nombre, mostrar_todos of the line-based
\* store) writes nothing to disk and leaves the records in memory and the name
\* index as they were.
C24_LecturasSinEfecto ==
    [][(fase \in {"metodos", "lineas"} /\ fase' \in {"visto", "visto_lineas"})
           => /\ items' = items
              /\ indice' = indice
              /\ disco' = disco
              /\ productos' = productos
              /\ archivo' = archivo]_vars

\* buscar_exactos has looked up a name that no record of a non-empty store has
C24_Testigo ==
    /\ fase = "visto"
    /\ vista.op = "buscar_exactos"
    /\ items # <<>>
    /\ Clave(vista.patron) \notin DOMAIN indice

\* C25: bajo_stock(umbral) returns exactly the set of the ids of the stored
\* records whose cantidad is strictly less than umbral: a record whose cantidad
\* equals umbral is left out, and so is every deleted record.
C25_BajoStock ==
    (fase = "visto" /\ vista.op = "bajo_stock") =>
        /\ \A i \in 1..Len(items) :
               items[i].id \in vista.res <=> items[i].cantidad < vista.patron
        /\ \A id_ \in vista.res : EnItems(items, id_)

\* bajo_stock on a store with a record below the threshold and a record at the
\* threshold
C25_Testigo ==
    /\ fase = "visto"
    /\ vista.op = "bajo_stock"
    /\ vista.res # {}
    /\ \E i \in 1..Len(items) : items[i].cantidad = vista.patron

----------------------------------------------------------------------------
(* Properties of the Producto objects.                                     *)

\* C22: the construction of a Producto fails when id <= 0, when the name is
\* empty after trimming, when the quantity is negative, or when the price is
\* negative or not numeric: Producto of the line-based store and of Semana11.
C22_ConstruccionValida ==
    /\ (/\ rt.op = "init" /\ rt.clase = "lineas"
        /\ \/ rt.args[1].v <= 0
           \/ Strip(rt.args[2].v) = <<>>
           \/ rt.args[3].v < 0
           \/ rt.args[4].t \notin {"int", "float"}
           \/ rt.args[4].v < 0)
           => rt.res = "raise"
    /\ (/\ rt.op = "init" /\ rt.clase = "s11"
        /\ \/ rt.args[1] <= 0
           \/ Strip(rt.args[2]) = <<>>
           \/ rt.args[3] < 0
           \/ rt.args[4] < 0)
           => rt.res = "raise"

\* C23: a quantity or price setter of Producto that rejects its argument
\* (cantidad and precio of the line-based store, set_cantidad and set_precio
\* of Semana11) leaves the object as it was: the field keeps its value and no
\* other field changes.
C23_SetterRechaza ==
    [][(/\ rt'.op \in {"cantidad", "precio", "set_cantidad", "set_precio"}
        /\ rt'.res = "raise"
        /\ rt' # rt)
           => rt'.p = rt.p]_vars

\* a setter has rejected a value on an object whose field held another one
C23_Testigo ==
    /\ rt.op \in {"cantidad", "set_cantidad"}
    /\ rt.res = "raise"
    /\ rt.p.cantidad = 1
    /\ rt.p.precio > 0

----------------------------------------------------------------------------
(* Properties of the order of the steps of a persist.                      *)

\* C26: in every persist, the replace of the target happens only after the
\* contents of the temporary file were flushed and forced to stable storage
\* (fsync): no target is replaced by a temporary file that was not synced.
C26_FsyncAntesDeReplace ==
    [][(g.pc = "replace" /\ g'.fin = "ok") => g.fsync]_vars

----------------------------------------------------------------------------
(* Properties of the name index of Semana11 across cargar.                 *)

\* C27: in every state reachable through agregar, eliminar,
\* actualizar_cantidad, actualizar_precio and cargar, _indice_nombres has no
\* key whose bucket is the empty set: removing the last id of a name removes
\* the bucket itself.
C27_SinCuboVacio ==
    \A k \in DOMAIN indice : indice[k] # {}

\* an eliminar has removed the only record of the store, and with it the only
\* bucket of the index
C27_Testigo ==
    /\ ult11.op = "eliminar"
    /\ ult11.res = "ok"
    /\ items = <<>>
    /\ DOMAIN indice = {}

\* C30: in every state reachable through cargar (of any decodable file, one
\* that repeats an id included) followed by agregar and eliminar calls, every
\* id in a bucket of _indice_nombres is a key of _items, so that buscar_exactos
\* never raises, and the record of that id has the folded name of the bucket,
\* so that buscar_exactos returns only records of the searched name.
C30_CubosEnItems ==
    \A k \in DOMAIN indice :
        \A id_ \in indice[k] :
            /\ EnItems(items, id_)
            /\ Clave(items[PosItem(items, id_)].nombre) = k

----------------------------------------------------------------------------
(* Properties of two callers of one line-based Inventario.                 *)

\* the list that the calls that returned True leave, applied to the list before
\* the calls in the order in which they changed it
RECURSIVE Aplicar(_, _)
Aplicar(prods, orden) ==
    IF orden = <<>> THEN prods
    ELSE LET h == hilos.c[Head(orden)]
         IN  Aplicar(IF h.res = "True" THEN mutar(prods, h.ll).productos
                     ELSE prods,
                     Tail(orden))

\* both calls have ended and the list is not the one the successful calls leave
Roto ==
    /\ \A c \in 1..2 : hilos.c[c].pc = "fin"
    /\ productos # Aplicar(hilos.ini, hilos.orden)

\* C28: two callers that run anadir_producto, eliminar_por_id or
\* actualizar_por_id on one Inventario with their steps interleaved and no
\* mutual exclusion break the store: a state is reachable in which the rollback
\* of a failed call leaves the list different from the records of the calls
\* that succeeded.  The break has that cause only: the list differs from what
\* the successful calls leave only when a call failed and a call began while
\* the other was between its change and its end.
C28_RotoSoloSolapadas ==
    Roto => (hilos.solapadas /\ \E c \in 1..2 : hilos.c[c].res = "raise")

\* both callers added a record, the first one's persist failed and its pop()
\* took the other's record: the successful record is lost and the failed one
\* stays
C28_Testigo ==
    /\ Roto
    /\ \E c \in 1..2 :
           /\ hilos.c[c].ll.op = "anadir" /\ hilos.c[c].res = "raise"
           /\ hilos.c[3 - c].ll.op = "anadir" /\ hilos.c[3 - c].res = "True"
           /\ Posicion(productos, hilos.c[c].ll.id) # 0
           /\ Posicion(productos, hilos.c[3 - c].ll.id) = 0

----------------------------------------------------------------------------
(* Properties of a failed load and of a failed persist.                    *)

\* C31: when cargar of Semana11 raises (unreadable or invalid JSON, or an
\* entry that does not decode), _items and _indice_nombres are what they were
\* before the call: the store is neither emptied nor partially loaded.
C31_CargaFallidaSinEfecto ==
    [][(ult11'.op = "cargar" /\ ult11'.res = "raise")
           => (items' = items /\ indice' = indice)]_vars

\* the ids of the entries of a data file that decode
IdsEnDisco(dsk) ==
    {dsk.productos[n].id :
        n \in {m \in 1..Len(dsk.productos) : from_dict(dsk.productos[m]).ok}}

\* C32: in main() of Semana11 a record of the data file leaves the file only
\* through an explicit delete of its id: whatever the initial cargar did, no
\* guardar (after an add or an update, the manual save, the save on exit)
\* writes a product set that lacks a record the file held.
C32_SoloEliminarQuita ==
    [][\A id_ \in IdsEnDisco(disco) \ IdsEnDisco(disco') :
           /\ ult11'.op = "eliminar"
           /\ EnItems(items, id_)
           /\ ~EnItems(items', id_)]_vars

\* C35: after a persist that fails at a step that follows the creation of the
\* temporary file, no temporary file is left beside the target:
\* _guardar_atomico of the line-based store and _atomic_write_json of Semana11.
C35_SinTemporal ==
    g.fin = "raise" => g.tmp = NoFichero(g.prog)

----------------------------------------------------------------------------
(* Properties of the bank accounts and of the window.                      *)

\* C34: for an account opened with a non-negative balance, after any sequence
\* of depositar and retirar calls with any amounts the balance of a
\* CuentaBancaria or a CuentaAhorros is never negative and the balance of a
\* CuentaCorriente is never below -limite_sobregiro; a rejected deposit or
\* withdrawal leaves the balance as it was.
C34_SaldoAcotado ==
    /\ cuenta.clase \in {"CuentaBancaria", "CuentaAhorros"} => cuenta.saldo >= 0
    /\ cuenta.clase = "CuentaCorriente" => cuenta.saldo >= -cuenta.limite
    /\ ~cuenta.ok => cuenta.saldo = cuenta.antes

\* C33: the ids that add_item gives to rows are strictly increasing and never
\* reused: after any sequence of add_item, smart_clean, delete_selected and
\* clear_all events no two rows that ever existed share an id, and an add_item
\* whose text is empty after trimming adds no row and leaves _next_id as it
\* was.
C33_IdsCrecientes ==
    /\ \A i, j \in 1..Len(app.dados) : i < j => app.dados[i] < app.dados[j]
    /\ \A k \in 1..Len(app.filas) :
           \E i \in 1..Len(app.dados) : app.dados[i] = app.filas[k].id
    /\ \A k, l \in 1..Len(app.filas) :
           k # l => app.filas[k].id # app.filas[l].id
    /\ (app.op = "add_item" /\ Strip(app.antes.entry) = <<>>)
           => (app.next_id = app.antes.next_id
               /\ Len(app.filas) = app.antes.filas)
    /\ (app.op = "add_item" /\ Strip(app.antes.entry) # <<>>)
           => (app.next_id = app.antes.next_id + 1
               /\ Len(app.filas) = app.antes.filas + 1
               /\ app.filas[Len(app.filas)].id = app.antes.next_id)

\* a row was added after rows were deleted, and the table holds fewer rows than
\* ids were given
C33_Testigo ==
    /\ app.op = "add_item"
    /\ app.next_id = app.antes.next_id + 1
    /\ Len(app.filas) >= 2
    /\ Len(app.filas) < Len(app.dados)

----------------------------------------------------------------------------
(* Properties of Semana11, of the encoding and of the persist.             *)

\* every bucket holds exactly the ids of the records whose folded name is its
\* key, and every record is in the bucket of its own name
InvarianteA(its, ind) ==
    /\ \A k \in DOMAIN ind :
          ind[k] = {its[i].id : i \in {j \in 1..Len(its) : Clave(its[j].nombre) = k}}
    /\ \A i \in 1..Len(its) :
          /\ Clave(its[i].nombre) \in DOMAIN ind
          /\ its[i].id \in ind[Clave(its[i].nombre)]

Mutaciones11 == {"agregar", "eliminar", "actualizar_cantidad", "actualizar_precio"}

\* C4: in main() of Semana11 a failure of the guardar that follows agregar,
\* eliminar, actualizar_cantidad or actualizar_precio leaves _items and
\* _indice_nombres as they were before the mutating call.
C4_FalloGuardarRestaura ==
    [][(ult11'.op \in Mutaciones11 /\ ult11'.res = "error_guardar")
        => (items' = items /\ indice' = indice)]_vars

\* C5: at every step of a persist, also when a step raises or the process
\* dies there, the target holds the complete content it held before the call
\* or the complete serialization of the new records.
C5_DestinoViejoONuevo ==
    g.destino \in {g.viejo, Completo(g.prog, g.datos)}

\* the process died with some of several records written to the temporary file
C5_Testigo ==
    /\ g.fin = "crash"
    /\ g.escritos > 0
    /\ g.escritos < Len(g.datos)
    /\ g.destino = g.viejo
    /\ g.viejo # Completo(g.prog, g.datos)

\* C7: for every Producto the constructor accepts, desde_linea(a_linea(p))
\* succeeds and returns a Producto equal to p in id, nombre, cantidad, precio.
C7_IdaYVuelta ==
    rt.paso = "decodificado" => (rt.res.ok /\ rt.res.p = rt.p)

\* C8: from an empty store, after any sequence of agregar, eliminar,
\* actualizar_cantidad and actualizar_precio calls, every bucket of
\* _indice_nombres is exactly the set of ids whose folded name is its key and
\* every record is in the bucket of its name.
C8_IndiceExacto ==
    InvarianteA(items, indice)

\* a successful eliminar that left a record in a bucket its id shared
C8_Testigo ==
    /\ ult11.op = "eliminar"
    /\ ult11.res = "ok"
    /\ items # <<>>
    /\ \E k \in DOMAIN indice : indice[k] # {}

\* C9: after cargar completes on a file whose entries all decode, the same id
\* under several names included, every bucket of _indice_nombres holds exactly
\* the ids of _items whose folded name is its key.
C9_CargaIndiceExacto ==
    (ult11.op = "cargar" /\ ult11.res = "ok") => InvarianteA(items, indice)

====
